---------------------------- MODULE Spec2Model ----------------------------
(***************************************************************************)
(* Model of the configuration engine of choopm/stdfx (package configfx):   *)
(* the Provider (Config, Viper), the file Source and Overlay.applyTo.      *)
(*                                                                         *)
(* Documents are trees of tagged values:                                   *)
(*   Str(s), Num(s)  scalars (a number is kept as its numeral),            *)
(*   Nil             the nil value,                                        *)
(*   Map(f)          a mapping, f a function from keys to values,          *)
(*   List(s)         a list, s a sequence of values.                       *)
(* Strings that the code parses (paths, segments) are sequences of tokens. *)
(***************************************************************************)
EXTENDS Integers, Sequences, FiniteSets, TLC

\* ------------------------------------------------------------------ values

Str(s) == [k |-> "s", t |-> "str", v |-> s]
Num(s) == [k |-> "s", t |-> "int", v |-> s]
Nil == [k |-> "n"]
Map(f) == [k |-> "m", v |-> f]
List(s) == [k |-> "l", v |-> s]

EmptyMap == [x \in {} |-> x]

IsMap(x) == x.k = "m"
IsList(x) == x.k = "l"

\* reflect.TypeOf of a decoded value: map[string]any, []any, string, int, nil
TypeOf(x) == IF x.k = "s" THEN x.t ELSE x.k

\* m[key] = val on a Go map
Put(m, key, val) == [kk \in (DOMAIN m) \cup {key} |-> IF kk = key THEN val ELSE m[kk]]

\* ------------------------------------------------------------------ strings

\* strings.Contains(s, tok) for a one-character token
Contains(s, tok) == \E i \in 1..Len(s) : s[i] = tok

RECURSIVE TrimLeft(_, _)
TrimLeft(s, tok) ==
    IF Len(s) > 0 /\ Head(s) = tok THEN TrimLeft(Tail(s), tok) ELSE s

RECURSIVE TrimRight(_, _)
TrimRight(s, tok) ==
    IF Len(s) > 0 /\ s[Len(s)] = tok THEN TrimRight(SubSeq(s, 1, Len(s) - 1), tok) ELSE s

\* index of the first occurrence of tok in s, 0 when there is none
IndexOf(s, tok) ==
    IF Contains(s, tok) THEN CHOOSE i \in 1..Len(s) : s[i] = tok /\ \A j \in 1..(i - 1) : s[j] # tok
    ELSE 0

\* strings.Cut(s, sep)
Cut(s, sep) ==
    LET i == IndexOf(s, sep) IN
    IF i = 0 THEN [a |-> s, b |-> <<>>, ok |-> FALSE]
    ELSE [a |-> SubSeq(s, 1, i - 1), b |-> SubSeq(s, i + 1, Len(s)), ok |-> TRUE]

\* strings.Split(s, sep)
RECURSIVE Split(_, _)
Split(s, sep) ==
    LET i == IndexOf(s, sep) IN
    IF i = 0 THEN <<s>>
    ELSE <<SubSeq(s, 1, i - 1)>> \o Split(SubSeq(s, i + 1, Len(s)), sep)

\* the Go string a token sequence stands for
Join(s) ==
    CASE Len(s) = 0 -> ""
      [] Len(s) = 1 -> s[1]
      [] s = <<"[", "name", "=", "a", "]">> -> "[name=a]"
      [] s = <<"[", "name", "=", "b", "]">> -> "[name=b]"
      [] s = <<"[", "name", "]">> -> "[name]"
      [] s = <<"[", "id", "=", "a", "]">> -> "[id=a]"
      [] s = <<"id", "=", "a">> -> "id=a"

\* ------------------------------------------------------------------ viper

\* An environment is a function from variable names to (string) values; a
\* variable name is the sequence of its upper-case words, joined by "_".
Upper(w) ==
    CASE w = "a" -> "A"
      [] w = "b" -> "B"
      [] w = "v" -> "V"
      [] w = "name" -> "NAME"
      [] w = "rules" -> "RULES"
      [] w = "webserver" -> "WEBSERVER"
      [] w = "port" -> "PORT"
      [] w = "host" -> "HOST"
      [] w = "app" -> "APP"
      [] OTHER -> w

\* viper.mergeWithEnvPrefix followed by the env key replacer ("." -> "_"):
\* the name of the variable that overrides the key at `path`
EnvKey(prefix, path) ==
    LET full == IF prefix = "" THEN path ELSE <<prefix>> \o path
    IN [i \in 1..Len(full) |-> Upper(full[i])]

\* viper.getEnv under AutomaticEnv: the variable's value; an empty value counts
\* as unset (AllowEmptyEnv is off)
HasEnv(e, prefix, path) ==
    /\ e.auto
    /\ EnvKey(prefix, path) \in DOMAIN e.vars
    /\ e.vars[EnvKey(prefix, path)] # ""

GetEnv(e, prefix, path) == Str(e.vars[EnvKey(prefix, path)])

\* a viper without AutomaticEnv (viper.New())
NoEnv == [auto |-> FALSE, vars |-> EmptyMap]

\* viper.isPathShadowedInAutoEnv: a variable is set for a proper parent path
Shadowed(e, prefix, path) ==
    \E i \in 1..(Len(path) - 1) : HasEnv(e, prefix, SubSeq(path, 1, i))

\* viper.Get of the leaf key at `path` whose config value is val: the
\* environment first, then the config file's value
GetLeaf(e, prefix, path, val) ==
    IF HasEnv(e, prefix, path) THEN GetEnv(e, prefix, path)
    ELSE IF Shadowed(e, prefix, path) THEN Nil
    ELSE val

\* viper.AllSettings: the nested map of every leaf key of the config with the
\* value viper.Get gives it. Keys holding nil are skipped, and a map without any
\* leaf key has no key of its own.
RECURSIVE SettingsAt(_, _, _, _)
SettingsAt(m, e, prefix, path) ==
    LET sub(key) == SettingsAt(m[key].v, e, prefix, Append(path, key))
        leaf(key) == GetLeaf(e, prefix, Append(path, key), m[key])
        keep == {key \in DOMAIN m :
                    IF IsMap(m[key]) THEN DOMAIN sub(key) # {} ELSE leaf(key) # Nil}
    IN [key \in keep |-> IF IsMap(m[key]) THEN Map(sub(key)) ELSE leaf(key)]

AllSettings(config, e, prefix) == SettingsAt(config, e, prefix, <<>>)

\* ------------------------------------------------------------------ Overlay.applyTo

\* The overlay's file name (Overlay.Filename)
OverlayFilename == "overlay.yaml"

\* applyTo, "retrieve the from key": walks the segments of From through the
\* overlay's settings. fromSlice moves one level down only when the value just
\* read is a map; from is the value read last.
RECURSIVE FromWalk(_, _, _, _, _)
FromWalk(fromSlice, from, fromPath, i, fromStr) ==
    IF i > Len(fromPath)
    THEN IF from = Nil
         THEN [err |-> "from_nil", path |-> fromStr, file |-> OverlayFilename]
         ELSE [err |-> "none", from |-> from]
    ELSE LET elem == Join(fromPath[i]) IN
         IF elem \notin DOMAIN fromSlice
         THEN [err |-> "from_not_found", elem |-> elem, path |-> fromStr,
               file |-> OverlayFilename]
         ELSE LET f == fromSlice[elem] IN
              FromWalk(IF IsMap(f) THEN f.v ELSE fromSlice, f, fromPath, i + 1, fromStr)

\* fromStr is the From string (a token sequence), settings the overlay's
\* AllSettings()
ResolveFrom(settings, fromStr) ==
    FromWalk(settings, Nil, Split(fromStr, "."), 1, fromStr)

\* applyTo, the [] operator: v, ok := forged.(map[string]any)
SelectorMapLax(acc) ==
    IF IsMap(acc) THEN [ok |-> TRUE, v |-> acc.v] ELSE [ok |-> TRUE, v |-> EmptyMap]

SelectorMap(acc) ==
    IF IsMap(acc) THEN [ok |-> TRUE, v |-> acc.v] ELSE [ok |-> FALSE]

\* applyTo, "forge a config": the loop over the segments of one To path, from
\* the last (i = Len(apath)) to the first. forged is the accumulator; from is
\* the From value, which the [] operator writes to (v[a] = b) as long as forged
\* is still that very map (same: no segment has wrapped it yet).
RECURSIVE ForgeWalk(_, _, _, _, _)
ForgeWalk(forged, from, same, apath, i) ==
    IF i = 0 THEN [err |-> "none", forged |-> forged, from |-> from]
    ELSE LET key == apath[i] IN
         IF Contains(key, "[")
         THEN LET trimmed == TrimRight(TrimLeft(key, "["), "]")
                  cut == Cut(trimmed, "=")
              IN IF cut.a # <<"name">>
                 THEN [err |-> "selector_name_only", file |-> OverlayFilename, from |-> from]
                 ELSE IF cut.ok
                 THEN IF ~SelectorMap(forged).ok
                      THEN [err |-> "selector_map_only", file |-> OverlayFilename,
                            from |-> from]
                      ELSE LET v == Map(Put(SelectorMap(forged).v, Join(cut.a),
                                            Str(Join(cut.b))))
                           IN ForgeWalk(List(<<v>>), IF same THEN v ELSE from, FALSE,
                                        apath, i - 1)
                 ELSE ForgeWalk(forged, from, same, apath, i - 1)
         ELSE ForgeWalk(Map(Join(key) :> forged), from, FALSE, apath, i - 1)

\* the forged value of one To path (a token sequence) and the From value after
\* it, or the error
Forge(from, path) ==
    LET apath == Split(path, ".") IN ForgeWalk(from, from, TRUE, apath, Len(apath))

\* ------------------------------------------------------------------ strategic merge

\* The patch metadata of the config type T (the cfg argument of applyTo), as
\* strategicpatch reads it from T's struct tags:
\*   [k |-> "struct", f |-> fields]   fields: json name -> [t, strategy, key]
\*   [k |-> "slice", e |-> element type]
\*   [k |-> "other"]                  any other type
TStruct(fields) == [k |-> "struct", f |-> fields]
TSlice(elem) == [k |-> "slice", e |-> elem]
TOther == [k |-> "other"]
Field(t, strategy, key) == [t |-> t, strategy |-> strategy, key |-> key]

\* PatchMetaFromStruct.LookupPatchMetadataForStruct
LookupStruct(schema, key) ==
    IF schema.k # "struct" \/ key \notin DOMAIN schema.f THEN [err |-> TRUE]
    ELSE [err |-> FALSE, field |-> schema.f[key]]

\* PatchMetaFromStruct.LookupPatchMetadataForSlice
LookupSlice(schema, key) ==
    LET r == LookupStruct(schema, key) IN
    IF r.err THEN r
    ELSE IF r.field.t.k # "slice" \/ r.field.t.e.k = "slice" THEN [err |-> TRUE]
    ELSE [err |-> FALSE, field |-> [r.field EXCEPT !.t = r.field.t.e]]

\* strategicpatch.index: the position in l (0: none) of the first item with
\* the merge key value of x (maps), or equal to x (other kinds)
KeyOf(x, mergeKey, isMap) ==
    IF isMap THEN (IF IsMap(x) /\ mergeKey \in DOMAIN x.v THEN x.v[mergeKey] ELSE Nil) ELSE x

IndexFirst(l, x, mergeKey, isMap) == IF l = <<>> THEN 0 ELSE 1

Index(l, x, mergeKey, isMap) ==
    LET hit == {i \in 1..Len(l) : KeyOf(l[i], mergeKey, isMap) = KeyOf(x, mergeKey, isMap)}
    IN IF hit = {} THEN 0 ELSE CHOOSE i \in hit : \A j \in hit : i <= j

\* strategicpatch.partitionMapsByPresentInList / partitionPrimitivesByPresentInList:
\* the items of s that are in patch (present) or are not (~present), in order
RECURSIVE Partition(_, _, _, _, _)
Partition(s, patch, mergeKey, isMap, present) ==
    IF s = <<>> THEN <<>>
    ELSE (IF (Index(patch, Head(s), mergeKey, isMap) > 0) = present THEN <<Head(s)>> ELSE <<>>)
         \o Partition(Tail(s), patch, mergeKey, isMap, present)

\* strategicpatch.deduplicateScalars
RECURSIVE Dedup(_)
Dedup(s) ==
    IF s = <<>> THEN <<>>
    ELSE LET init == Dedup(SubSeq(s, 1, Len(s) - 1))
             last == s[Len(s)]
         IN IF \E i \in 1..Len(init) : init[i] = last THEN init ELSE Append(init, last)

\* strategicpatch.normalizeSliceOrder: toSort (all of its items are in order)
\* stably sorted by the position in order
RECURSIVE SortByIndex(_, _, _, _)
SortByIndex(toSort, order, mergeKey, isMap) ==
    IF toSort = <<>> THEN <<>>
    ELSE LET ix(i) == Index(order, toSort[i], mergeKey, isMap)
             m == CHOOSE i \in 1..Len(toSort) :
                     \A j \in 1..Len(toSort) : ix(i) < ix(j) \/ (ix(i) = ix(j) /\ i <= j)
             rest == [j \in 1..(Len(toSort) - 1) |-> IF j < m THEN toSort[j] ELSE toSort[j + 1]]
         IN <<toSort[m]>> \o SortByIndex(rest, order, mergeKey, isMap)

\* strategicpatch.mergeSortedSlice: the items of left inserted into right,
\* each before the first item of right that follows it in serverOrder
RECURSIVE MergeSortedSlice(_, _, _, _, _)
MergeSortedSlice(left, right, serverOrder, mergeKey, isMap) ==
    IF left = <<>> THEN right
    ELSE IF right = <<>> THEN left
    ELSE LET li == Index(serverOrder, Head(left), mergeKey, isMap)
             ri == Index(serverOrder, Head(right), mergeKey, isMap)
         IN IF li > 0 /\ ri > 0 /\ li < ri
            THEN <<Head(left)>> \o MergeSortedSlice(Tail(left), right, serverOrder, mergeKey, isMap)
            ELSE <<Head(right)>> \o MergeSortedSlice(left, Tail(right), serverOrder, mergeKey, isMap)

\* strategicpatch.normalizeElementOrder after the partition of merged into the
\* items present in patch and the server-only items
NormalizeOrder(merged, patch, original, mergeKey, isMap) ==
    LET patchItems == SortByIndex(Partition(merged, patch, mergeKey, isMap, TRUE),
                                  patch, mergeKey, isMap)
        serverOnly == SortByIndex(Partition(merged, patch, mergeKey, isMap, FALSE),
                                  original, mergeKey, isMap)
    IN MergeSortedSlice(serverOnly, patchItems, original, mergeKey, isMap)

MergeFailed == [err |-> "patch_failed"]
Merged(v) == [err |-> "none", v |-> v]

RECURSIVE MergeMap(_, _, _)
RECURSIVE MergeSliceMaps(_, _, _, _)

\* strategicpatch.mergeSlice: original and patch are sequences
MergeSlice(original, patch, schema, mergeKey) ==
    LET both == original \o patch
        types == {TypeOf(both[i]) : i \in 1..Len(both)}
    IN IF both = <<>> THEN Merged(original)
       ELSE IF Cardinality(types) # 1 \/ types = {"n"} \/ types = {"l"} THEN MergeFailed
       ELSE IF types # {"m"}
       THEN IF mergeKey # "" THEN MergeFailed
            ELSE Merged(NormalizeOrder(Dedup(both), patch, original, "", FALSE))
       ELSE IF mergeKey = "" THEN MergeFailed
       ELSE LET order(r) ==
                    IF r.err # "none" THEN r
                    ELSE IF \E i \in 1..Len(r.v) : mergeKey \notin DOMAIN r.v[i].v
                    THEN MergeFailed
                    ELSE Merged(NormalizeOrder(r.v, patch, original, mergeKey, TRUE))
            IN order(MergeSliceMaps(original, patch, schema, mergeKey))

MergeSliceMapsAppend(original, patch, schema, mergeKey) ==
    IF \E i \in 1..Len(patch) : mergeKey \notin DOMAIN patch[i].v THEN MergeFailed
    ELSE Merged(original \o patch)

\* strategicpatch.mergeSliceWithoutSpecialElements: each item of patch is merged
\* into the item of original with its merge key value, or appended
MergeSliceMaps(original, patch, schema, mergeKey) ==
    IF patch = <<>> THEN Merged(original)
    ELSE LET p == Head(patch) IN
         IF mergeKey \notin DOMAIN p.v THEN MergeFailed
         ELSE LET at == Index(original, p, mergeKey, TRUE) IN
              IF at = 0
              THEN MergeSliceMaps(Append(original, p), Tail(patch), schema, mergeKey)
              ELSE LET rest(r) ==
                           IF r.err # "none" THEN r
                           ELSE MergeSliceMaps([original EXCEPT ![at] = Map(r.v)],
                                               Tail(patch), schema, mergeKey)
                   IN rest(MergeMap(original[at].v, p.v, schema))

\* strategicpatch.mergeMap, for one key of patch: the key's value in the result
\* (has: whether the result has the key)
MergeKey(original, patch, schema, key) ==
    LET pv == patch[key]
        take == [err |-> "none", has |-> TRUE, v |-> pv]
        liftMap(r) == IF r.err # "none" THEN [err |-> r.err, has |-> FALSE]
                      ELSE [err |-> "none", has |-> TRUE, v |-> Map(r.v)]
        liftList(r) == IF r.err # "none" THEN [err |-> r.err, has |-> FALSE]
                       ELSE [err |-> "none", has |-> TRUE, v |-> List(r.v)]
    IN IF pv = Nil THEN [err |-> "none", has |-> FALSE]
       ELSE IF key \notin DOMAIN original THEN take
       ELSE IF TypeOf(original[key]) # TypeOf(pv) THEN take
       ELSE IF IsMap(pv)
       THEN LET l == LookupStruct(schema, key) IN
            IF l.err THEN [err |-> "patch_failed", has |-> FALSE]
            ELSE IF l.field.strategy = "replace" THEN take
            ELSE liftMap(MergeMap(original[key].v, pv.v, l.field.t))
       ELSE IF IsList(pv)
       THEN LET l == LookupSlice(schema, key) IN
            IF l.err THEN [err |-> "patch_failed", has |-> FALSE]
            ELSE IF l.field.strategy # "merge" THEN take
            ELSE liftList(MergeSlice(original[key].v, pv.v, l.field.t, l.field.key))
       ELSE take

\* strategicpatch.mergeMap: original and patch are functions from keys
MergeMap(original, patch, schema) ==
    LET build(one) ==
            LET keys == {key \in (DOMAIN original) \cup (DOMAIN patch) :
                            IF key \in DOMAIN patch THEN one[key].has ELSE TRUE}
            IN IF \E key \in DOMAIN patch : one[key].err # "none" THEN MergeFailed
               ELSE Merged([key \in keys |->
                               IF key \in DOMAIN patch THEN one[key].v ELSE original[key]])
    IN build([key \in DOMAIN patch |-> MergeKey(original, patch, schema, key)])

\* strategicpatch.StrategicMergeMapPatch(original, patch, cfg)
StrategicMergeMapPatch(original, patch, schema) ==
    IF schema.k # "struct" THEN MergeFailed ELSE MergeMap(original, patch, schema)

\* viper.mergeMaps(src, tgt): a key of src is set in tgt, except that a map of
\* tgt is merged into, and is left as it is when the source value is not a map
RECURSIVE MergeMaps(_, _)
MergeMaps(src, tgt) ==
    [key \in (DOMAIN src) \cup (DOMAIN tgt) |->
        IF key \notin DOMAIN src THEN tgt[key]
        ELSE IF key \notin DOMAIN tgt THEN src[key]
        ELSE IF IsMap(tgt[key])
             THEN IF IsMap(src[key]) THEN Map(MergeMaps(src[key].v, tgt[key].v))
                  ELSE tgt[key]
        ELSE src[key]]

\* viper.MergeConfigMap(cfg) on a viper whose config is `config`
MergeConfigMap(config, cfg) == MergeMaps(cfg, config)

\* ------------------------------------------------------------------ state

VARIABLES
    \* the viper instance the overlay is applied to / the Provider caches
    config,       \* its config map (v.config)
    env,          \* the process environment it reads: [auto, vars]
    envPrefix,    \* its environment prefix
    \* Overlay.applyTo
    ovFile,       \* the parsed content of the overlay's file, or NoFile
    ovFrom,       \* Overlay.From
    ovTo,         \* Overlay.To
    schema,       \* the patch metadata of the type of cfg
    applied,      \* number of applyTo calls made
    ret,          \* what the last applyTo call returned
    before,       \* config when the last applyTo call began
    forged,       \* the forged value of each To path the last call has forged
    trail,        \* config after each To path the last call has merged
    watches,      \* number of file watches started on the overlay's own viper
    \* the Provider and its callers
    baseFile,     \* the parsed content of the base file the Source finds, or NoFile
    viper,        \* providerImpl.viper: 0 is nil, else the instance
    viperMutex,   \* providerImpl.viperMutex: 0 is unlocked, else the holder
    built,        \* number of calls of source.Viper so far
    returned,     \* the instances Viper() has returned so far
    pc,           \* where each goroutine is
    kind,         \* the call each goroutine is in: "Config" or "Viper"
    opts,         \* the options each goroutine gave to its Config call
    didRead,      \* whether the goroutine's Config call has read the base file
    result,       \* what the goroutine's last Config call returned
    calls,        \* number of calls started so far
    merges,       \* the maps merged into the built viper in memory, in order
    \* the SourceFile and the file system it searches
    files,        \* the parsed content of the config file at each path, or NoFile
    searchPaths,  \* SourceFile.searchPaths
    flagConfigPath,   \* the value of --config-path
    flagAbsolutePath, \* the value of --config-file
    configFile,   \* viper's configFile ("" when none is set or found yet)
    configPaths,  \* viper's configPaths
    \* one run of the composed decode hook
    hook,         \* [data, to, custom] and, once it has run, [done, out]
    \* one call of DefaultFileSearchPaths
    search,       \* [home] and, once it has returned, [done, paths]
    \* Commander
    clock,        \* the time in seconds
    cmd,          \* the *cobra.Command: [st, err, endedAt, heeds]
    gr,           \* the errgroup and its goroutine: [pc, ret, err]
    ctx,          \* [cancelled] by cancel(), [waited] by the group's Wait
    start,        \* the OnStart hook: [pc, at, ret]
    stop,         \* the OnStop hook: [pc, ret]
    shutdowns,    \* the exit codes shutdowner.Shutdown was called with
    cctx,         \* the context the command works with, derived from Commander's
    sdCall,       \* the last call of Shutdown(ctx, exitCode): [ctx, code, err]
    appver,       \* AppVersion, the calls of VersionCommand and what was reported
    entry,        \* ContainerEntrypoint: os.Args, the tools, $PATH and what it did
    logger,       \* a logger of AtLevel/AtLevelMap and the record its handler got
    validate      \* config validate: the file and what the command returned

overlayVars == <<ovFile, ovFrom, ovTo, schema, applied, ret, before, forged, trail, watches>>
viperVars == <<config, env, envPrefix>>
providerVars == <<baseFile, viper, viperMutex, built, returned, pc, kind, opts, didRead, result,
                  calls, merges>>

sourceVars == <<files, searchPaths, flagConfigPath, flagAbsolutePath>>
finderVars == <<configFile, configPaths>>
decodeVars == <<hook>>
defaultsVars == <<search>>
commanderVars == <<clock, cmd, gr, ctx, start, stop, shutdowns>>
contextVars == <<cctx, sdCall>>
auxVars == <<appver, entry, logger, validate>>

NoFile == [k |-> "nofile"]

\* applyTo: mforged, ok := forged.(map[string]any)
MapCastLax(val) ==
    IF IsMap(val) THEN [ok |-> TRUE, v |-> val.v] ELSE [ok |-> TRUE, v |-> EmptyMap]

MapCast(val) ==
    IF IsMap(val) THEN [ok |-> TRUE, v |-> val.v] ELSE [ok |-> FALSE]

\* applyTo, the loop over s.To from the i-th path on. cur is the target's config,
\* from the From value; fs and tr collect forged and trail.
RECURSIVE ToLoop(_, _, _, _, _, _, _, _, _)
ToLoop(cur, from, to, i, e, prefix, sch, fs, tr) ==
    IF i > Len(to) THEN [err |-> [err |-> "none"], config |-> cur, forged |-> fs, trail |-> tr]
    ELSE LET merge(f, nxt) ==
                 ToLoop(nxt, f.from, to, i + 1, e, prefix, sch, Append(fs, f.forged),
                        Append(tr, nxt))
             build(f, patch) ==
                 IF patch.err # "none"
                 THEN [err |-> [err |-> "build_patch", file |-> OverlayFilename],
                       config |-> cur, forged |-> Append(fs, f.forged), trail |-> tr]
                 ELSE merge(f, MergeConfigMap(cur, patch.v))
             forge(f) ==
                 IF f.err # "none"
                 THEN [err |-> [err |-> f.err, file |-> f.file], config |-> cur,
                       forged |-> fs, trail |-> tr]
                 ELSE IF ~MapCast(f.forged).ok
                 THEN [err |-> [err |-> "map_cast", file |-> OverlayFilename],
                       config |-> cur, forged |-> Append(fs, f.forged), trail |-> tr]
                 ELSE build(f, StrategicMergeMapPatch(AllSettings(cur, e, prefix),
                                                      MapCast(f.forged).v, sch))
         IN forge(Forge(from, to[i]))

\* Overlay.applyTo(vip, cfg): the error returned, the target's config after the
\* call, and the forged values and merges of the call
ApplyToResult(cur, e, prefix, file, from, to, sch) ==
    IF file = NoFile
    THEN [err |-> [err |-> "read_overlay", file |-> OverlayFilename], config |-> cur,
          forged |-> <<>>, trail |-> <<>>]
    ELSE LET r == ResolveFrom(AllSettings(file.v, NoEnv, ""), from) IN
         IF r.err # "none"
         THEN [err |-> r, config |-> cur, forged |-> <<>>, trail |-> <<>>]
         ELSE ToLoop(cur, r.from, to, 1, e, prefix, sch, <<>>, <<>>)

\* ------------------------------------------------------------------ inputs of applyTo

MaxApply == 2

\* a dotted path of plain keys
Dot(a, b) == a \o <<".">> \o b
Sel(value) == <<"[", "name", "=", value, "]">>

OverlayFiles ==
    { NoFile,
      Map([a |-> Map([b |-> Str("x")]), b |-> Str("y"), rule |-> Map([v |-> Str("9")])]),
      Map([a |-> Str("x"), b |-> Str("y"),
           rule |-> List(<<Map([name |-> Str("a"), v |-> Str("9")])>>)]),
      Map([a |-> Nil, b |-> Map(EmptyMap), rule |-> Num("7")]) }

FromPaths ==
    { <<"a">>, <<"b">>, Dot(<<"a">>, <<"b">>), <<"rule">>, <<"c">>,
      Dot(<<"a">>, <<"c">>), Dot(<<"rule">>, <<"v">>) }

ToLists ==
    { <<>>,
      << <<"a">> >>,
      << Dot(<<"a">>, <<"b">>) >>,
      << Dot(<<"rules">>, Sel("a")) >>,
      << Sel("a") >>,
      << Dot(<<"rules">>, Dot(Sel("a"), Sel("b"))) >>,
      << Dot(<<"rules">>, Dot(Sel("b"), <<"v">>)) >>,
      << Dot(<<"rules">>, <<"[", "name", "]">>) >>,
      << Dot(<<"rules">>, <<"[", "id", "=", "a", "]">>) >>,
      << Dot(<<"rules">>, Sel("a")), <<"a">> >>,
      << <<"a">>, Dot(<<"a">>, <<"b">>) >>,
      << Sel("a"), <<"a">> >>,
      << <<"a">>, Sel("a") >>,
      << <<"a">>, Dot(<<"rules">>, Dot(Sel("a"), Sel("b"))) >>,
      << <<"rules">>, <<"b">> >> }

Rule(name, v) == Map([name |-> Str(name), v |-> Str(v)])

TargetConfigs ==
    { EmptyMap,
      [a |-> Str("z")],
      [a |-> Map([b |-> Str("q"), v |-> Str("1")]),
       rules |-> List(<<Rule("a", "1"), Rule("b", "2")>>)],
      [b |-> Num("5"), rules |-> List(<<Rule("b", "2")>>)] }

RuleType == TStruct([name |-> Field(TOther, "", ""), v |-> Field(TOther, "", "")])

\* a config type whose rules list is merged by name, and one without patch tags
\* that has no field a
Schemas ==
    { TStruct([a |-> Field(TStruct([b |-> Field(TOther, "", ""), v |-> Field(TOther, "", ""),
                                    name |-> Field(TOther, "", "")]), "", ""),
               b |-> Field(TOther, "", ""),
               rules |-> Field(TSlice(RuleType), "merge", "name")]),
      TStruct([b |-> Field(TOther, "", ""),
               rules |-> Field(TSlice(RuleType), "", "")]) }

Environments ==
    { [auto |-> TRUE, vars |-> EmptyMap],
      [auto |-> TRUE, vars |-> (<<"A">> :> "e")] }


\* ------------------------------------------------------------------ the typed config

\* strconv.ParseInt accepts exactly the numerals
Numerals == {"8080", "9090", "7070", "6060", "5050", "5", "7"}

\* The fields of webserver.Config that hold WebserverConfig, with their
\* mapstructure paths, types and default tags
TFields ==
    { [path |-> <<"webserver", "host">>, type |-> "str", default |-> "0.0.0.0"],
      [path |-> <<"webserver", "port">>, type |-> "int", default |-> "8080"] }

TPaths == {f.path : f \in TFields}

\* the patch metadata of webserver.Config: no patch tags
WebSchema ==
    TStruct([webserver |-> Field(TStruct([host |-> Field(TOther, "", ""),
                                          port |-> Field(TOther, "", "")]), "", "")])

\* mapstructure's weakly typed decoding of a value into a field of type `type`
DecodeValue(val, type) ==
    IF val.k # "s" THEN [err |-> TRUE]
    ELSE IF type = "int"
    THEN IF val.t = "int" \/ val.v \in Numerals THEN [err |-> FALSE, v |-> Num(val.v)]
         ELSE [err |-> TRUE]
    ELSE [err |-> FALSE, v |-> Str(val.v)]

\* defaults.Set(t): every field gets the value of its default tag
DefaultsSet == [p \in TPaths |-> LET f == CHOOSE f \in TFields : f.path = p
                                 IN DecodeValue(Str(f.default), f.type).v]

\* the value the settings hold for a field path: found, absent, or an error when
\* a struct of T meets a value that is not a map
RECURSIVE LookupPath(_, _, _)
LookupPath(m, path, i) ==
    IF path[i] \notin DOMAIN m THEN [st |-> "absent"]
    ELSE IF i = Len(path) THEN [st |-> "found", v |-> m[path[i]]]
    ELSE IF ~IsMap(m[path[i]]) THEN [st |-> "error"]
    ELSE LookupPath(m[path[i]].v, path, i + 1)

\* viper.Unmarshal(t, hooks): the settings of the keys viper knows (AllSettings)
\* are decoded onto t; a field the settings do not hold keeps its value
Unmarshal(cur, e, prefix, t) ==
    LET settings == AllSettings(cur, e, prefix)
        at(p) == LookupPath(settings, p, 1)
        type(p) == (CHOOSE f \in TFields : f.path = p).type
        dec(p) == DecodeValue(at(p).v, type(p))
    IN IF \E p \in TPaths : at(p).st = "error" \/ (at(p).st = "found" /\ dec(p).err)
       THEN [done |-> TRUE, err |-> "unmarshal"]
       ELSE [done |-> TRUE, err |-> "none",
             cfg |-> [p \in TPaths |-> IF at(p).st = "found" THEN dec(p).v ELSE t[p]]]

\* ------------------------------------------------------------------ decode hooks

\* The data a hook is given: a string is the sequence of its characters, a
\* []string the sequence of its strings, a time.Duration its length in
\* milliseconds (Go counts nanoseconds; the units ns and us are left out)
HString(s) == [kind |-> "string", s |-> s, l |-> <<>>, n |-> 0]
HSlice(l) == [kind |-> "slice", s |-> <<>>, l |-> l, n |-> 0]
HDuration(ms) == [kind |-> "duration", s |-> <<>>, l |-> <<>>, n |-> ms]
HInt(n) == [kind |-> "int", s |-> <<>>, l |-> <<>>, n |-> n]

\* what a hook returns: (data, nil) or (nil, err)
HookOk(data) == [err |-> FALSE, data |-> data]
HookErr == [err |-> TRUE, data |-> HInt(0)]

NoHook == [done |-> FALSE]

\* no call of DefaultFileSearchPaths
NoSearch == [done |-> FALSE, home |-> "", paths |-> <<>>]

Digits == {"0", "1", "2", "3", "4", "5", "6", "7", "8", "9"}

DigitVal(c) ==
    CASE c = "0" -> 0 [] c = "1" -> 1 [] c = "2" -> 2 [] c = "3" -> 3 [] c = "4" -> 4
      [] c = "5" -> 5 [] c = "6" -> 6 [] c = "7" -> 7 [] c = "8" -> 8 [] c = "9" -> 9

\* str2duration's unitMap, in milliseconds
Millisecond == 1
Second == 1000 * Millisecond
Minute == 60 * Second
Hour == 60 * Minute
UnitMapHours ==
    (<<"m", "s">> :> Millisecond) @@ (<<"s">> :> Second) @@ (<<"m">> :> Minute) @@
    (<<"h">> :> Hour) @@ (<<"d">> :> Hour) @@ (<<"w">> :> Hour)

UnitMap ==
    (<<"m", "s">> :> Millisecond) @@ (<<"s">> :> Second) @@ (<<"m">> :> Minute) @@
    (<<"h">> :> Hour) @@ (<<"d">> :> 24 * Hour) @@ (<<"w">> :> 7 * 24 * Hour)

\* leadingInt: the value of the leading digits of s, how many they are, and
\* the rest
RECURSIVE LeadingInt(_, _, _)
LeadingInt(s, x, n) ==
    IF s # <<>> /\ Head(s) \in Digits THEN LeadingInt(Tail(s), x * 10 + DigitVal(Head(s)), n + 1)
    ELSE [x |-> x, n |-> n, rem |-> s]

\* the unit: the characters up to the next digit or "."
RECURSIVE LeadingUnit(_, _)
LeadingUnit(s, u) ==
    IF s # <<>> /\ Head(s) \notin Digits \cup {"."} THEN LeadingUnit(Tail(s), Append(u, Head(s)))
    ELSE [u |-> u, rem |-> s]

\* str2duration.ParseDuration, the loop over the (number, unit) pairs of s with
\* d the sum so far (strings with a fraction are not among the inputs)
RECURSIVE ParsePairs(_, _)
ParsePairs(s, d) ==
    IF s = <<>> THEN [err |-> FALSE, d |-> d]
    ELSE IF Head(s) \notin Digits \cup {"."} THEN [err |-> TRUE]
    ELSE LET unit(int) ==
                 LET add(u) ==
                         IF u.u = <<>> \/ u.u \notin DOMAIN UnitMap THEN [err |-> TRUE]
                         ELSE ParsePairs(u.rem, d + int.x * UnitMap[u.u])
                 IN IF int.n = 0 THEN [err |-> TRUE] ELSE add(LeadingUnit(int.rem, <<>>))
         IN unit(LeadingInt(s, 0, 0))

\* str2duration.ParseDuration(str): [-+]?([0-9]*[a-z]+)+
ParseDuration(str) ==
    LET signed == str # <<>> /\ Head(str) \in {"-", "+"}
        neg == signed /\ Head(str) = "-"
        s == IF signed THEN Tail(str) ELSE str
        sign(r) == IF r.err \/ ~neg THEN r ELSE [err |-> FALSE, d |-> 0 - r.d]
    IN IF s = <<"0">> THEN [err |-> FALSE, d |-> 0]
       ELSE IF s = <<>> THEN [err |-> TRUE]
       ELSE sign(ParsePairs(s, 0))

\* mapstructure.StringToSliceHookFunc(sep)
StringToSliceHookFunc(sep, data, t) ==
    IF data.kind # "string" \/ t # "[]string" THEN HookOk(data)
    ELSE IF data.s = <<>> THEN HookOk(HSlice(<<>>))
    ELSE HookOk(HSlice(Split(data.s, sep)))

\* decoders.Duration()
Duration(data, t) ==
    IF data.kind # "string" THEN HookOk(data)
    ELSE IF t # "time.Duration" THEN HookOk(data)
    ELSE LET lift(r) == IF r.err THEN HookErr ELSE HookOk(HDuration(r.d))
         IN lift(ParseDuration(data.s))

\* The DecodeHook() of a config type T:
\*   "empty"  everything.Config: ComposeDecodeHookFunc() of no hooks
\*   "trim"   a T that trims the strings of its []string fields
\*   "fail"   a T whose hook rejects the ints it is given
CustomHooks == {"empty", "trim", "fail"}

CustomDecodeHook(custom, data, t) ==
    CASE custom = "empty" -> HookOk(data)
      [] custom = "trim" ->
            IF data.kind # "slice" \/ t # "[]string" THEN HookOk(data)
            ELSE HookOk(HSlice([i \in 1..Len(data.l) |-> TrimLeft(data.l[i], " ")]))
      [] custom = "fail" ->
            IF data.kind # "int" THEN HookOk(data) ELSE HookErr

\* DefaultDecoders()
DefaultDecoders == <<"stringToSlice", "duration">>

DecodersOfCustomFirst(custom) ==
    IF custom \in CustomHooks THEN <<custom>> \o DefaultDecoders ELSE DefaultDecoders

\* Config(): the default decoders, and the hook of T appended when T is a
\* CustomDecoder (custom = "none" when it is not)
DecodersOf(custom) ==
    IF custom \in CustomHooks THEN Append(DefaultDecoders, custom) ELSE DefaultDecoders

\* mapstructure.DecodeHookExec of one hook of the list
DecodeHookExec(h, data, t) ==
    CASE h = "stringToSlice" -> StringToSliceHookFunc(",", data, t)
      [] h = "duration" -> Duration(data, t)
      [] OTHER -> CustomDecodeHook(h, data, t)

\* mapstructure.ComposeDecodeHookFunc(fs...): every hook from the i-th on is
\* run on what the hook before it returned; the first error ends the run
RECURSIVE ComposeDecodeHookFunc(_, _, _, _)
ComposeDecodeHookFunc(fs, i, data, t) ==
    IF i > Len(fs) THEN HookOk(data)
    ELSE LET next(r) == IF r.err THEN r ELSE ComposeDecodeHookFunc(fs, i + 1, r.data, t)
         IN next(DecodeHookExec(fs[i], data, t))

\* the strings, values and target types the hook is run on
HookStrings ==
    { <<"4", "d", "3", "h", "2", "m", "1", "s">>, <<"1", "w">>, <<"a", "b", "c">>, <<>>,
      <<"0">>, <<"5">>, <<"1", "x">>, <<"d">>, <<"-", "1", "h">>, <<"1", "0", "m", "s">>,
      <<"1", "m", "3", "0", "s">>, <<"1", "h", "1", "h">>, <<"2", "w", "1", "d">>,
      <<"a", ",", " ", "b">>, <<"1", "h", ",", "2", "h">> }

HookData ==
    {HString(str) : str \in HookStrings}
    \cup {HInt(5), HDuration(1000), HSlice(<<<<"a">>, <<" ", "b">>>>)}

HookTargets == {"[]string", "time.Duration", "string", "int"}

\* v.Unmarshal(t, viper.DecodeHook(ComposeDecodeHookFunc(decoders...))): the
\* composed hook is run on one value for one target type
RunDecodeHook ==
    /\ ~hook.done
    /\ hook' = [hook EXCEPT !.done = TRUE,
                            !.out = ComposeDecodeHookFunc(DecodersOf(hook.custom), 1,
                                                          hook.data, hook.to)]
    /\ UNCHANGED <<viperVars, overlayVars, providerVars, sourceVars, finderVars, defaultsVars, commanderVars, contextVars, auxVars>>

\* ------------------------------------------------------------------ Commander

\* the time frame to capture errors during startup, in seconds
startBackoff == 1

MaxClock == 3

MaxDerive == 2

\* A context is the sequence of its layers, context.Background() the empty one;
\* a layer holds a value under a key or is a cancellation layer
Background == <<>>

WithValue(c, key, val) == Append(c, [kind |-> "value", key |-> key, val |-> val])

WithCancel(c) == Append(c, [kind |-> "cancel", key |-> "", val |-> ""])

ValueInnermost(c, key) ==
    IF c # <<>> /\ c[Len(c)].kind = "value" /\ c[Len(c)].key = key THEN c[Len(c)].val ELSE "nil"

\* ctx.Value(key): the value of the innermost layer that holds the key
RECURSIVE Value(_, _)
Value(c, key) ==
    IF c = <<>> THEN "nil"
    ELSE IF c[Len(c)].kind = "value" /\ c[Len(c)].key = key THEN c[Len(c)].val
    ELSE Value(SubSeq(c, 1, Len(c) - 1), key)

\* withShutdowner(ctx, shutdowner)
WithShutdowner(c, shutdowner) == WithValue(c, "shutdownerContextKey", shutdowner)

\* shutdownerFromContext(ctx)
ShutdownerFromContext(c) ==
    LET found(v) == IF v = "nil" THEN [err |-> "ErrContextMissingShutdowner", val |-> "nil"]
                    ELSE [err |-> "nil", val |-> v]
    IN found(Value(c, "shutdownerContextKey"))

\* Commander: the ctx of the errgroup, which the command is executed with
CommanderContext == WithCancel(WithCancel(WithShutdowner(Background, "shutdowner")))

\* the keys of other packages (shutdownerContextKey is not exported) and the
\* exit codes of the callers of Shutdown
OtherKeys == {"k"}
ExitCodes == {0, 2}

\* the errgroup before g.Go; the errors are nil, context.Canceled, an error of
\* the command, the goroutine's "failed to run: ..." and the error of
\* shutdowner.Shutdown()
NoGoroutine == [pc |-> "none", ret |-> "nil", err |-> "nil"]

\* Commander before fx runs its hooks; the command heeds its context or not
CommanderInit(heeds) ==
    /\ clock = 0
    /\ cmd = [st |-> "idle", err |-> "nil", endedAt |-> 0, heeds |-> heeds]
    /\ gr = NoGoroutine
    /\ ctx = [cancelled |-> FALSE, waited |-> FALSE]
    /\ start = [pc |-> "idle", at |-> 0, ret |-> "nil"]
    /\ stop = [pc |-> "idle", ret |-> "nil"]
    /\ shutdowns = <<>>
    /\ cctx = CommanderContext
    /\ sdCall = [ctx |-> Background, code |-> 0, err |-> "none"]

CommanderIdle == CommanderInit(TRUE)

\* no call of VersionCommand, of ContainerEntrypoint, of AtLevel or of config
\* validate
NoVersion ==
    [supplied |-> <<>>, app |-> "unknown", built |-> FALSE, arg |-> "none", reported |-> "none"]
NoEntry == [done |-> FALSE, args |-> <<>>]
NoLogger ==
    [made |-> FALSE, kind |-> "none", level |-> 0, m |-> <<>>, min |-> 0, redirect |-> FALSE,
     derived |-> <<>>, logged |-> FALSE, at |-> 0, got |-> [reached |-> FALSE, level |-> 0]]
NoValidate == [done |-> FALSE]

AuxIdle ==
    appver = NoVersion /\ entry = NoEntry /\ logger = NoLogger /\ validate = NoValidate

\* the errgroup's ctx is done once cancel() was called, a goroutine of the
\* group returned an error, or Wait returned
CtxDone == ctx.cancelled \/ gr.err # "nil" \/ ctx.waited

TimerDueAtOnce == clock >= start.at

\* time.After(startBackoff) has fired
TimerDue == clock >= start.at + startBackoff

GroupWaitReturnsAtOnce == TRUE

\* g.Wait() returns once the goroutine has returned
GroupWaitReturns == gr.pc = "done"

otherVars ==
    <<viperVars, overlayVars, providerVars, sourceVars, finderVars, decodeVars, defaultsVars,
      auxVars>>

\* fx runs OnStart: g.Go starts the goroutine, which executes the command with
\* the group's ctx, and the hook waits in its select
OnStart ==
    /\ start.pc = "idle"
    /\ clock + startBackoff <= MaxClock
    /\ start' = [start EXCEPT !.pc = "select", !.at = clock]
    /\ gr' = [gr EXCEPT !.pc = "exec"]
    /\ cmd' = [cmd EXCEPT !.st = "running"]
    /\ UNCHANGED <<clock, ctx, stop, shutdowns, contextVars, otherVars>>

\* the command returns of its own accord, with nil or with an error
CommandEnds ==
    /\ cmd.st = "running"
    /\ \E e \in {"nil", "error"} :
          cmd' = [cmd EXCEPT !.st = "returned", !.err = e, !.endedAt = clock]
    /\ UNCHANGED <<clock, gr, ctx, start, stop, shutdowns, contextVars, otherVars>>

\* a command that watches cmd.Context() returns once the ctx is done
CommandCancelled ==
    /\ cmd.st = "running"
    /\ cmd.heeds
    /\ CtxDone
    /\ \E e \in {"Canceled", "nil", "error"} :
          cmd' = [cmd EXCEPT !.st = "returned", !.err = e, !.endedAt = clock]
    /\ UNCHANGED <<clock, gr, ctx, start, stop, shutdowns, contextVars, otherVars>>

\* the goroutine after ExecuteContextC returned: an error other than
\* context.Canceled is returned as "failed to run" after the deferred
\* Shutdown(ExitCode(1)); otherwise the goroutine returns what Shutdown()
\* returns. The group keeps the first error that is not nil.
GoroutineReturns ==
    /\ gr.pc = "exec"
    /\ cmd.st = "returned"
    /\ IF cmd.err \notin {"nil", "Canceled"}
       THEN /\ shutdowns' = Append(shutdowns, 1)
            /\ gr' = [pc |-> "done", ret |-> "failed to run", err |-> "failed to run"]
       ELSE /\ shutdowns' = Append(shutdowns, 0)
            /\ \E e \in {"nil", "shutdown"} : gr' = [pc |-> "done", ret |-> e, err |-> e]
    /\ UNCHANGED <<clock, cmd, ctx, start, stop, contextVars, otherVars>>

\* OnStart's select: case <-ctx.Done() goes on to g.Wait(), case
\* <-time.After(startBackoff) returns nil
OnStartSelect ==
    /\ start.pc = "select"
    /\ \/ CtxDone /\ start' = [start EXCEPT !.pc = "wait"]
       \/ TimerDue /\ start' = [start EXCEPT !.pc = "returned", !.ret = "nil"]
    /\ UNCHANGED <<clock, cmd, gr, ctx, stop, shutdowns, contextVars, otherVars>>

\* OnStart: return g.Wait()
OnStartWait ==
    /\ start.pc = "wait"
    /\ GroupWaitReturns
    /\ start' = [start EXCEPT !.pc = "returned", !.ret = gr.err]
    /\ ctx' = [ctx EXCEPT !.waited = TRUE]
    /\ UNCHANGED <<clock, cmd, gr, stop, shutdowns, contextVars, otherVars>>

\* fx runs OnStop, which it does only for a hook whose OnStart returned nil:
\* cancel()
OnStop ==
    /\ stop.pc = "idle"
    /\ start.pc = "returned" /\ start.ret = "nil"
    /\ ctx' = [ctx EXCEPT !.cancelled = TRUE]
    /\ stop' = [stop EXCEPT !.pc = "wait"]
    /\ UNCHANGED <<clock, cmd, gr, start, shutdowns, contextVars, otherVars>>

\* OnStop: return g.Wait()
OnStopWait ==
    /\ stop.pc = "wait"
    /\ GroupWaitReturns
    /\ stop' = [stop EXCEPT !.pc = "returned", !.ret = gr.err]
    /\ ctx' = [ctx EXCEPT !.waited = TRUE]
    /\ UNCHANGED <<clock, cmd, gr, start, shutdowns, contextVars, otherVars>>

\* the running command derives a context from the one it works with
Derive ==
    /\ cmd.st = "running"
    /\ Len(cctx) < Len(CommanderContext) + MaxDerive
    /\ \/ cctx' = WithCancel(cctx)
       \/ \E key \in OtherKeys : cctx' = WithValue(cctx, key, "v")
    /\ UNCHANGED <<commanderVars, sdCall, otherVars>>

\* the running command calls Shutdown(ctx, exitCode) once, with its context or
\* with one that does not stem from Commander
Shutdown ==
    /\ cmd.st = "running"
    /\ sdCall.err = "none"
    /\ \E c \in {cctx, WithValue(Background, "k", "v")}, exitCode \in ExitCodes :
          \E r \in {ShutdownerFromContext(c)} :
              IF r.err # "nil"
              THEN /\ sdCall' = [ctx |-> c, code |-> exitCode, err |-> r.err]
                   /\ UNCHANGED shutdowns
              ELSE /\ shutdowns' = Append(shutdowns, exitCode)
                   /\ \E e \in {"nil", "shutdown"} :
                         sdCall' = [ctx |-> c, code |-> exitCode, err |-> e]
    /\ UNCHANGED <<clock, cmd, gr, ctx, start, stop, cctx, otherVars>>

\* a step of the hooks or of the goroutine is ready; such steps take no time
Ready ==
    \/ gr.pc = "exec" /\ cmd.st = "returned"
    \/ start.pc = "select" /\ (CtxDone \/ TimerDue)
    \/ start.pc = "wait" /\ GroupWaitReturns
    \/ stop.pc = "wait" /\ GroupWaitReturns

\* a second passes
Tick ==
    /\ clock < MaxClock
    /\ ~Ready
    /\ clock' = clock + 1
    /\ UNCHANGED <<cmd, gr, ctx, start, stop, shutdowns, contextVars, otherVars>>

\* ------------------------------------------------------------------ VersionCommand

MaxVersionCalls == 2

\* the build tags given to VersionCommand, "" when there is none
Versions == {"", "1.2.3", "2.0.0", "dev", "v0.1.0"}

\* how the version is asked for: the version command or the root flag
VersionArgs == {"version", "--version", "-v"}

\* VersionCommand(version): the assignment to AppVersion
VersionCommand ==
    /\ Len(appver.supplied) < MaxVersionCalls
    /\ \E version \in Versions :
          appver' = [appver EXCEPT !.supplied = Append(@, version),
                                  !.app = IF version # "" THEN "unknown" ELSE @]
    /\ UNCHANGED <<entry, logger, validate, commanderVars, contextVars, viperVars, overlayVars,
                   providerVars, sourceVars, finderVars, decodeVars, defaultsVars>>

\* the constructor VersionCommand returned is called: the version command, the
\* --version flag and the root pre-run that hijacks the root command's Run
VersionConstructor ==
    /\ appver.supplied # <<>>
    /\ ~appver.built
    /\ appver' = [appver EXCEPT !.built = TRUE]
    /\ UNCHANGED <<entry, logger, validate, commanderVars, contextVars, viperVars, overlayVars,
                   providerVars, sourceVars, finderVars, decodeVars, defaultsVars>>

\* cmd.Run, run as the version command or as the root command with --version:
\* log.Info("build info", ..., slog.String("version", AppVersion))
VersionRun ==
    /\ appver.built
    /\ appver.reported = "none"
    /\ \E arg \in VersionArgs :
          appver' = [appver EXCEPT !.arg = arg, !.reported = appver.app]
    /\ UNCHANGED <<entry, logger, validate, commanderVars, contextVars, viperVars, overlayVars,
                   providerVars, sourceVars, finderVars, decodeVars, defaultsVars>>

\* ------------------------------------------------------------------ ContainerEntrypoint

\* An argument or file name is the sequence of its path elements: "sh" is
\* <<"sh">>, "/bin/sh" is <<"/bin", "sh">>

\* ContainerEntrypointDefaultTools
ContainerEntrypointDefaultTools == << <<"sh">>, <<"/bin", "sh">>, <<"bash">>, <<"/bin", "bash">> >>

\* filepath.Base(name)
Base(name) == <<name[Len(name)]>>

\* slices.Contains(l, x)
SlicesContains(l, x) == \E i \in 1..Len(l) : l[i] = x

\* the directories of $PATH, first to last, of which one holds file
RECURSIVE FindInPath(_, _, _, _)
FindInPath(dirs, i, file, execs) ==
    IF i > Len(dirs) THEN [err |-> TRUE, path |-> <<>>]
    ELSE IF <<dirs[i]>> \o file \in execs THEN [err |-> FALSE, path |-> <<dirs[i]>> \o file]
    ELSE FindInPath(dirs, i + 1, file, execs)

\* exec.LookPath(file): a name with a slash is tried as it is, any other name
\* in the directories of $PATH
LookPath(file, dirs, execs) ==
    IF Len(file) > 1
    THEN IF file \in execs THEN [err |-> FALSE, path |-> file] ELSE [err |-> TRUE, path |-> <<>>]
    ELSE FindInPath(dirs, 1, file, execs)

ToolsGiven(tools) == tools

\* ContainerEntrypoint(tools...): the default tools if nothing was provided
ToolsOf(tools) == IF Len(tools) = 0 THEN ContainerEntrypointDefaultTools ELSE tools

\* the constructor ContainerEntrypoint returns, called in a process with
\* os.Args = args whose $PATH is dirs, whose executable files are execs and
\* where syscall.Exec succeeds or not: what it did, os.Args afterwards, and
\* the image and arguments of the exec
EntrypointRun(args, tools, dirs, execs, execOk) ==
    LET wildcardTool == SlicesContains(tools, <<"*">>)
        none == [did |-> "continue", args |-> args, image |-> <<>>, argv |-> <<>>]
        chain(look) ==
            IF look.err /\ wildcardTool THEN none
            ELSE IF look.err THEN [none EXCEPT !.did = "panic"]
            ELSE IF execOk
            THEN [did |-> "exec", args |-> args, image |-> look.path, argv |-> Tail(args)]
            ELSE [none EXCEPT !.did = "panic"]
    IN IF Len(args) < 2 THEN none
       ELSE IF args[2] = Base(args[1]) THEN [none EXCEPT !.args = Tail(args)]
       ELSE IF wildcardTool \/ SlicesContains(tools, args[2])
       THEN chain(LookPath(args[2], dirs, execs))
       ELSE none

\* os.Args of the process: the binary, and what the container was run with
ArgLists ==
    { << <<"/usr/bin", "app">> >>,
      << <<"/usr/bin", "app">>, <<"app">>, <<"-c">> >>,
      << <<"app">>, <<"app">> >>,
      << <<"/usr/bin", "app">>, <<"sh">>, <<"-c">> >>,
      << <<"/usr/bin", "app">>, <<"/bin", "sh">> >>,
      << <<"/usr/bin", "app">>, <<"bash">>, <<"-i">> >>,
      << <<"/usr/bin", "app">>, <<"whoami">> >>,
      << <<"/usr/bin", "app">>, <<"serve">>, <<"-v">> >>,
      << <<"/usr/bin", "sh">>, <<"sh">>, <<"-c">> >> }

ToolLists ==
    { <<>>,
      << <<"sh">>, <<"bash">>, <<"whoami">> >>,
      << <<"*">> >>,
      << <<"whoami">>, <<"*">> >> }

PathDirs == { <<>>, <<"/usr/bin", "/bin">> }

ExecutableSets ==
    { {},
      { <<"/bin", "sh">>, <<"/usr/bin", "whoami">>, <<"/usr/bin", "app">> },
      { <<"/bin", "sh">>, <<"/bin", "bash">>, <<"/usr/bin", "sh">> } }

\* fx invokes the constructor
Entrypoint ==
    /\ ~entry.done
    /\ \E r \in {EntrypointRun(entry.args, ToolsOf(entry.tools), entry.dirs, entry.execs,
                                entry.execOk)} :
          entry' = [entry EXCEPT !.done = TRUE, !.out = r]
    /\ UNCHANGED <<appver, logger, validate, commanderVars, contextVars, viperVars, overlayVars,
                   providerVars, sourceVars, finderVars, decodeVars, defaultsVars>>

\* ------------------------------------------------------------------ AtLevel

MaxDerived == 2

\* slog's levels, and levels between and beyond them
LevelDebug == 0 - 4
LevelInfo == 0
LevelWarn == 4
LevelError == 8
NamedLevels == {LevelDebug, LevelInfo, LevelWarn, LevelError}
Levels == NamedLevels \cup {0 - 8, 2, 12}

\* the minimum level of the underlying logger's handler
MinLevels == {LevelDebug, LevelInfo}

\* the map AtLevel hands to AtLevelMap
AtLevelLevels(level) == [l \in NamedLevels |-> level]

\* the maps given to AtLevelMap
LevelMaps ==
    { (LevelDebug :> LevelInfo) @@ (LevelInfo :> LevelWarn),
      [l \in Levels |-> LevelError] }

\* AtLevelMap(log, levels): a logger whose handler is a slogLevelRedirect
NewRedirect(ctor, level, levels) ==
    [logger EXCEPT !.made = TRUE, !.kind = ctor, !.level = level, !.m = levels,
                   !.redirect = TRUE]

\* AtLevel(log, level)
AtLevel ==
    /\ ~logger.made
    /\ \E level \in NamedLevels : logger' = NewRedirect("AtLevel", level, AtLevelLevels(level))
    /\ UNCHANGED <<appver, entry, validate, commanderVars, contextVars, viperVars, overlayVars,
                   providerVars, sourceVars, finderVars, decodeVars, defaultsVars>>

\* AtLevelMap(log, levels), called directly
AtLevelMap ==
    /\ ~logger.made
    /\ \E levels \in LevelMaps : logger' = NewRedirect("AtLevelMap", 0, levels)
    /\ UNCHANGED <<appver, entry, validate, commanderVars, contextVars, viperVars, overlayVars,
                   providerVars, sourceVars, finderVars, decodeVars, defaultsVars>>

\* slogLevelRedirect.WithAttrs and WithGroup return the handler the underlying
\* handler derives, which is no slogLevelRedirect
WithRedirect(redirect) == FALSE

\* log = log.With(...) or log.WithGroup(name): the logger of the derived handler
With ==
    /\ logger.made
    /\ ~logger.logged
    /\ Len(logger.derived) < MaxDerived
    /\ \E how \in {"WithAttrs", "WithGroup"} :
          logger' = [logger EXCEPT !.derived = Append(@, how),
                                  !.redirect = WithRedirect(@)]
    /\ UNCHANGED <<appver, entry, validate, commanderVars, contextVars, viperVars, overlayVars,
                   providerVars, sourceVars, finderVars, decodeVars, defaultsVars>>

\* s.m[record.Level], the zero level for a level the map does not hold
MapLevel(levels, level) == IF level \in DOMAIN levels THEN levels[level] ELSE 0

\* log.Log(ctx, level, msg): the logger asks its handler's Enabled with the
\* level logged at (the redirect passes the question on unchanged) and then
\* calls Handle, where the redirect rewrites the level
Log ==
    /\ logger.made
    /\ ~logger.logged
    /\ \E level \in Levels :
          logger' = [logger EXCEPT
                        !.logged = TRUE,
                        !.at = level,
                        !.got = IF level < logger.min THEN [reached |-> FALSE, level |-> 0]
                                ELSE [reached |-> TRUE,
                                      level |-> IF logger.redirect THEN MapLevel(logger.m, level)
                                                ELSE level]]
    /\ UNCHANGED <<appver, entry, validate, commanderVars, contextVars, viperVars, overlayVars,
                   providerVars, sourceVars, finderVars, decodeVars, defaultsVars>>

\* ------------------------------------------------------------------ config validate

\* a file name is a sequence of tokens: name parts, "." and "/"
\* filepath.Ext: the suffix that begins at the last dot of the last element of
\* the path, empty when that element has no dot
RECURSIVE FilepathExt(_, _)
FilepathExt(path, i) ==
    IF i = 0 \/ path[i] = "/" THEN <<>>
    ELSE IF path[i] = "." THEN SubSeq(path, i, Len(path))
    ELSE FilepathExt(path, i - 1)

\* strings.ToLower, token by token
LowerToken(tok) ==
    IF tok = "YAML" THEN "yaml" ELSE IF tok = "Yml" THEN "yml" ELSE tok
ToLower(str) == [i \in 1..Len(str) |-> LowerToken(str[i])]

\* viper.getConfigType of a file set by name: its extension without the dot
GetConfigType(file) ==
    LET ext == FilepathExt(file, Len(file)) IN
    IF Len(ext) > 1 THEN SubSeq(ext, 2, Len(ext)) ELSE <<>>

\* the config types this model's viper reads (of viper.SupportedExts)
SupportedExts == {<<"yaml">>, <<"yml">>, <<"json">>}

\* what a config file holds: a document every parser reads, a YAML document
\* with an infinite float (a: .inf), which YAML decodes and the conversion to
\* JSON of the strict parser rejects, and a text no parser reads
Texts == {"plain", "inf", "broken"}

\* viper.ReadInConfig on the file
ReadInConfig(file, text) ==
    IF GetConfigType(file) \notin SupportedExts THEN "unsupported"
    ELSE IF text = "broken" \/ (text = "inf" /\ GetConfigType(file) = <<"json">>)
    THEN "parse"
    ELSE "nil"

\* yaml.Unmarshal(b, &struct{}{}) of sigs.k8s.io/yaml
StrictUnmarshal(text) == IF text = "plain" THEN "nil" ELSE "strict"

\* the case of the switch over the lowered extension that selects the strict
\* YAML parser
StrictCase == <<"yaml">>

\* the files, results of Provider.Config() and of the config's Validate()
\* (none: T is no CustomValidator)
ConfigFileNames ==
    { <<"app", ".", "yaml">>, <<"app", ".", "yml">>, <<"app", ".", "json">>,
      <<"app", ".", "YAML">>, <<"app", ".", "prod", ".", "yaml">>,
      <<"conf", ".", "d", "/", "app", ".", "yaml">>, <<"conf", ".", "d", "/", "yaml">> }
ConfigResults == {"nil", "decode"}
ValidateResults == {"none", "nil", "invalid"}

\* validateCmd.RunE: the error returned and whether the strict parser was used
ValidateRunE(file, text, cfg, custom) ==
    LET t == ToLower(FilepathExt(file, Len(file))) IN
    IF ReadInConfig(file, text) # "nil"
    THEN [err |-> ReadInConfig(file, text), strict |-> FALSE]
    ELSE IF t = StrictCase /\ StrictUnmarshal(text) # "nil"
    THEN [err |-> StrictUnmarshal(text), strict |-> TRUE]
    ELSE IF cfg # "nil" THEN [err |-> cfg, strict |-> t = StrictCase]
    ELSE IF custom = "invalid" THEN [err |-> "invalid", strict |-> t = StrictCase]
    ELSE [err |-> "nil", strict |-> t = StrictCase]

\* one run of `config validate`
Validate ==
    /\ ~validate.done
    /\ validate' = [validate EXCEPT
                       !.done = TRUE,
                       !.out = ValidateRunE(validate.file, validate.text, validate.cfg,
                                            validate.custom)]
    /\ UNCHANGED <<appver, entry, logger, commanderVars, contextVars, viperVars, overlayVars,
                   providerVars, sourceVars, finderVars, decodeVars, defaultsVars>>

\* ------------------------------------------------------------------ the config file

\* the directories and files of the model's file system
WorkDir == "."
Paths == {WorkDir, "flag", "d1", "d2", "/abs/app.yaml"}

\* viper.AddConfigPath(in): appended unless empty or already there
AddConfigPath(paths, in) ==
    IF in = "" \/ \E i \in 1..Len(paths) : paths[i] = in THEN paths ELSE Append(paths, in)

\* SourceFile.Viper: for _, path := range s.searchPaths { v.AddConfigPath(path) }
RECURSIVE AddConfigPaths(_, _, _)
AddConfigPaths(paths, ins, i) ==
    IF i > Len(ins) THEN paths ELSE AddConfigPaths(AddConfigPath(paths, ins[i]), ins, i + 1)

FindConfigFileLast(fs, paths, i) ==
    IF \A j \in 1..Len(paths) : fs[paths[j]] = NoFile THEN ""
    ELSE paths[CHOOSE j \in 1..Len(paths) :
                  fs[paths[j]] # NoFile /\ \A k \in (j + 1)..Len(paths) : fs[paths[k]] = NoFile]

\* viper.findConfigFile: the config paths are searched in order from the i-th
\* on; the file is named by the directory that holds it, "" when none does
RECURSIVE FindConfigFile(_, _, _)
FindConfigFile(fs, paths, i) ==
    IF i > Len(paths) THEN ""
    ELSE IF fs[paths[i]] # NoFile THEN paths[i]
    ELSE FindConfigFile(fs, paths, i + 1)

\* viper.getConfigFile: the file set or found before, else the search
GetConfigFile(cf, paths, fs) == IF cf # "" THEN cf ELSE FindConfigFile(fs, paths, 1)

\* a Source that searches the working directory alone, where the file with the
\* given content is (or none when content is NoFile)
SourceOf(content) ==
    /\ files = [d \in Paths |-> IF d = WorkDir THEN content ELSE NoFile]
    /\ searchPaths = <<WorkDir>>
    /\ flagConfigPath = ""
    /\ flagAbsolutePath = ""

\* ------------------------------------------------------------------ Provider

NumGoroutines == 2
MaxCalls == 2

Goroutines == 1..NumGoroutines

NotDone == [done |-> FALSE]

\* the Provider's variables when nobody calls it (a built viper)
ProviderIdle ==
    /\ baseFile = NoFile
    /\ viper = 1
    /\ viperMutex = 0
    /\ built = 1
    /\ returned = {}
    /\ pc = [g \in Goroutines |-> "idle"]
    /\ kind = [g \in Goroutines |-> "none"]
    /\ opts = [g \in Goroutines |-> <<>>]
    /\ didRead = [g \in Goroutines |-> FALSE]
    /\ result = [g \in Goroutines |-> NotDone]
    /\ calls = 0
    /\ merges = <<>>
    /\ hook = NoHook
    /\ search = NoSearch
    /\ CommanderIdle
    /\ AuxIdle
    /\ SourceOf(NoFile)
    /\ configFile = ""
    /\ configPaths = <<WorkDir>>

\* configOptions as the With* functions build them, starting from
\* defaultConfigOptions()
Options(readInConfig, overlays) == [readInConfig |-> readInConfig, overlays |-> overlays]

\* an Overlay with the content of its file
OverlayOf(content, from, to) == [content |-> content, from |-> from, to |-> to]

PortOverlay(n) ==
    OverlayOf(Map([p |-> Num(n)]), <<"p">>, << Dot(<<"webserver">>, <<"port">>) >>)

\* an overlay whose To path forges a list, which applyTo cannot merge
ListOverlay ==
    OverlayOf(Map([p |-> Num("6060")]), <<"p">>, << Sel("a") >>)

\* what WithReadInConfig and WithOverlays give the callers of Config
OptionSets ==
    { Options(TRUE, <<>>),
      Options(TRUE, <<ListOverlay>>),
      Options(FALSE, <<>>),
      Options(TRUE, <<PortOverlay("6060")>>),
      Options(TRUE, <<PortOverlay("6060"), PortOverlay("5050")>>) }

BaseFiles ==
    { NoFile,
      Map([webserver |-> Map([host |-> Str("h")])]),
      Map([webserver |-> Map([port |-> Num("9090")])]),
      Map([webserver |-> Map([port |-> Str("abc")])]) }

ProcessEnvs ==
    { [auto |-> FALSE, vars |-> EmptyMap],
      [auto |-> FALSE, vars |-> (<<"APP", "WEBSERVER", "PORT">> :> "7070")] }

MemoryMaps == { [webserver |-> Map([host |-> Str("m")])] }

CanLockAlways(mutex) == TRUE

\* sync.Mutex.Lock returns once the mutex is unlocked
CanLock(mutex) == mutex = 0

\* a caller starts Config(opt...): a fresh T, defaults.Set(t), the decoders
ConfigStart(g) ==
    /\ pc[g] = "idle"
    /\ calls < MaxCalls
    /\ \E o \in OptionSets : opts' = [opts EXCEPT ![g] = o]
    /\ calls' = calls + 1
    /\ kind' = [kind EXCEPT ![g] = "Config"]
    /\ didRead' = [didRead EXCEPT ![g] = FALSE]
    /\ result' = [result EXCEPT ![g] = NotDone]
    /\ pc' = [pc EXCEPT ![g] = "lock"]
    /\ UNCHANGED <<viperVars, overlayVars, decodeVars, defaultsVars, commanderVars, contextVars, auxVars, sourceVars, finderVars, baseFile, viper, viperMutex, built, returned, merges>>

\* a caller starts Viper()
ViperStart(g) ==
    /\ pc[g] = "idle"
    /\ calls < MaxCalls
    /\ calls' = calls + 1
    /\ kind' = [kind EXCEPT ![g] = "Viper"]
    /\ pc' = [pc EXCEPT ![g] = "lock"]
    /\ UNCHANGED <<viperVars, overlayVars, decodeVars, defaultsVars, commanderVars, contextVars, auxVars, sourceVars, finderVars, baseFile, viper, viperMutex, built, returned, opts,
                   didRead, result, merges>>

\* Viper(): s.viperMutex.Lock()
ViperLock(g) ==
    /\ pc[g] = "lock"
    /\ CanLock(viperMutex)
    /\ viperMutex' = g
    /\ pc' = [pc EXCEPT ![g] = "check"]
    /\ UNCHANGED <<viperVars, overlayVars, decodeVars, defaultsVars, commanderVars, contextVars, auxVars, sourceVars, finderVars, baseFile, viper, built, returned, kind, opts, didRead,
                   result, calls, merges>>

\* Viper(): if s.viper != nil
ViperCheck(g) ==
    /\ pc[g] = "check"
    /\ pc' = [pc EXCEPT ![g] = IF viper # 0 THEN "return" ELSE "build"]
    /\ UNCHANGED <<viperVars, overlayVars, decodeVars, defaultsVars, commanderVars, contextVars, auxVars, sourceVars, finderVars, baseFile, viper, viperMutex, built, returned, kind,
                   opts, didRead, result, calls, merges>>

\* Viper(): s.viper = s.source.Viper(vOpts...); SourceFile.Viper makes a fresh
\* viper with AutomaticEnv, the flag's environment prefix and the file to find
ViperBuild(g) ==
    /\ pc[g] = "build"
    /\ built' = built + 1
    /\ viper' = built + 1
    /\ config' = EmptyMap
    /\ env' = [env EXCEPT !.auto = TRUE]
    /\ IF flagAbsolutePath # ""
       THEN configFile' = flagAbsolutePath /\ configPaths' = <<>>
       ELSE /\ configFile' = ""
            /\ configPaths' = AddConfigPaths(IF flagConfigPath # "" THEN <<flagConfigPath>>
                                             ELSE <<>>,
                                             searchPaths, 1)
    /\ pc' = [pc EXCEPT ![g] = "return"]
    /\ UNCHANGED <<envPrefix, overlayVars, decodeVars, defaultsVars, commanderVars, contextVars, auxVars, sourceVars, baseFile, viperMutex, returned, kind, opts, didRead,
                   result, calls, merges>>

\* Viper(): return s.viper, and the deferred s.viperMutex.Unlock()
ViperReturn(g) ==
    /\ pc[g] = "return"
    /\ returned' = returned \cup {viper}
    /\ viperMutex' = 0
    /\ pc' = [pc EXCEPT ![g] = IF kind[g] = "Config" THEN "read" ELSE "idle"]
    /\ UNCHANGED <<viperVars, overlayVars, decodeVars, defaultsVars, commanderVars, contextVars, auxVars, sourceVars, finderVars, baseFile, viper, built, kind, opts, didRead, result,
                   calls, merges>>

\* Config(): v.ReadInConfig(), which finds the file (getConfigFile) and replaces
\* the config by its content
ConfigRead(g) ==
    /\ pc[g] = "read"
    /\ didRead' = [didRead EXCEPT ![g] = TRUE]
    /\ \E filename \in {GetConfigFile(configFile, configPaths, files)} :
        /\ configFile' = filename
        /\ IF filename = "" \/ files[filename] = NoFile
           THEN /\ result' = [result EXCEPT ![g] = [done |-> TRUE, err |-> "read"]]
                /\ pc' = [pc EXCEPT ![g] = "idle"]
                /\ UNCHANGED config
           ELSE /\ config' = files[filename].v
                /\ pc' = [pc EXCEPT ![g] = "unmarshal"]
                /\ UNCHANGED result
    /\ UNCHANGED <<env, envPrefix, overlayVars, decodeVars, defaultsVars, commanderVars, contextVars, auxVars, sourceVars, configPaths, baseFile, viper, viperMutex, built, returned,
                   kind, opts, calls, merges>>

\* Config(): v.Unmarshal(t, hooks) and the return
ConfigUnmarshal(g) ==
    /\ pc[g] = "unmarshal"
    /\ result' = [result EXCEPT ![g] = Unmarshal(config, env, envPrefix, DefaultsSet)]
    /\ pc' = [pc EXCEPT ![g] = "idle"]
    /\ UNCHANGED <<viperVars, overlayVars, decodeVars, defaultsVars, commanderVars, contextVars, auxVars, sourceVars, finderVars, baseFile, viper, viperMutex, built, returned, kind,
                   opts, didRead, calls, merges>>

\* a caller merges a map into the backing viper in memory:
\* provider.Viper().MergeConfigMap(m), between two calls
MergeInMemory ==
    /\ viper # 0
    /\ \A g \in Goroutines : pc[g] = "idle"
    /\ Len(merges) < MaxCalls
    /\ \E m \in MemoryMaps :
        /\ config' = MergeConfigMap(config, m)
        /\ merges' = Append(merges, m)
    /\ UNCHANGED <<env, envPrefix, overlayVars, decodeVars, defaultsVars, commanderVars, contextVars, auxVars, sourceVars, finderVars, baseFile, viper, viperMutex, built, returned, pc,
                   kind, opts, didRead, result, calls>>

\* ------------------------------------------------------------------ specification of applyTo

InitOverlay ==
    /\ config \in TargetConfigs
    /\ env \in Environments
    /\ envPrefix = ""
    /\ ovFile \in OverlayFiles
    /\ ovFrom \in FromPaths
    /\ ovTo \in ToLists
    /\ schema \in Schemas
    /\ applied = 0
    /\ ret = [err |-> "none"]
    /\ before = config
    /\ forged = <<>>
    /\ trail = <<>>
    /\ watches = 0
    /\ ProviderIdle

\* one call of Overlay.applyTo(vip, cfg); no statement of it uses
\* viperWatchOnce or starts a watch on s.viper
ApplyTo ==
    /\ applied < MaxApply
    /\ \E r \in {ApplyToResult(config, env, envPrefix, ovFile, ovFrom, ovTo, schema)} :
        /\ config' = r.config
        /\ ret' = r.err
        /\ forged' = r.forged
        /\ trail' = r.trail
    /\ before' = config
    /\ applied' = applied + 1
    /\ UNCHANGED <<env, envPrefix, ovFile, ovFrom, ovTo, schema, watches>>
    /\ UNCHANGED <<providerVars, sourceVars, finderVars, decodeVars, defaultsVars, commanderVars, contextVars, auxVars>>

vars == <<viperVars, overlayVars, providerVars, sourceVars, finderVars, decodeVars, defaultsVars,
          commanderVars, contextVars, auxVars>>

NextOverlay == ApplyTo

SpecOverlay == InitOverlay /\ [][NextOverlay]_vars

\* ------------------------------------------------------------------ the default search paths

\* the config name the Source is made for (NewSourceFile's configName)
ConfigName == "app"

\* A path is the sequence of its elements, the first one rooted ("/opt") or
\* "."; HOME is one element, "" when the variable is unset or empty
Homes == {"", "/home/u", "/root"}

\* filepath.Join of a path and further elements
FilepathJoin(path, elems) == path \o elems

\* DefaultFileSearchPaths: the home folder dirs; "." + configName is one
\* element, written here as the pair (".", configName)
HomePaths(configName, home) ==
    << FilepathJoin(<<home>>, <<".config", configName>>),
       FilepathJoin(<<home>>, <<"." , configName>>),
       FilepathJoin(<<home>>, <<".local", "etc">>),
       FilepathJoin(<<home>>, <<".local", "etc", configName>>),
       <<home>> >>

\* DefaultFileSearchPaths: the common system dirs
SystemPaths(configName) ==
    << FilepathJoin(<<"/opt">>, <<configName>>),
       FilepathJoin(<<"/opt">>, <<configName, "etc">>),
       FilepathJoin(<<"/opt">>, <<configName, "etc", configName>>),
       <<"/usr/local/etc">>,
       FilepathJoin(<<"/usr/local/etc">>, <<configName>>),
       <<"/etc">>,
       FilepathJoin(<<"/etc">>, <<configName>>) >>

\* DefaultFileSearchPaths(configName) in a process whose HOME is home
DefaultFileSearchPaths(configName, home) ==
    << <<".">> >> \o (IF home # "" THEN HomePaths(configName, home) ELSE <<>>)
                 \o SystemPaths(configName)

\* NewSourceFile asks for the default search paths of the config name
DefaultFileSearchPathsCall ==
    /\ ~search.done
    /\ search' = [search EXCEPT !.done = TRUE,
                                !.paths = DefaultFileSearchPaths(ConfigName, search.home)]
    /\ UNCHANGED <<viperVars, overlayVars, providerVars, sourceVars, finderVars, decodeVars, commanderVars, contextVars, auxVars>>

\* ------------------------------------------------------------------ the environment prefix

\* strings.HasPrefix(envVar, prefix) for an entry NAME=value of os.Environ()
\* whose name is the word sequence `name` joined by "_": decided by the first
\* word of the name
HasPrefix(name, prefix) ==
    \/ prefix = ""
    \/ /\ Len(name) > 0
       /\ \/ name[1] = prefix
          \/ <<name[1], prefix>> \in {<<"APPLE", "APP">>}

DefaultEnvironmentPrefixNever(configName, environ) == ""

\* DefaultEnvironmentPrefix(configName) in the process environment environ
DefaultEnvironmentPrefix(configName, environ) ==
    LET upperConfigName == Upper(configName) IN
    IF \E envVar \in DOMAIN environ : HasPrefix(envVar, upperConfigName)
    THEN upperConfigName
    ELSE ""

\* process environments for the default prefix and the overriding
EnvironmentVars ==
    { EmptyMap,
      <<"APP", "WEBSERVER", "PORT">> :> "7070",
      <<"WEBSERVER", "PORT">> :> "6060",
      <<"APP", "WEBSERVER", "PORT">> :> "",
      (<<"APPLE">> :> "1") @@ (<<"WEBSERVER", "PORT">> :> "6060"),
      (<<"APP", "WEBSERVER", "PORT">> :> "7070") @@ (<<"WEBSERVER", "PORT">> :> "6060"),
      <<"APP", "WEBSERVER", "HOST">> :> "e" }

\* ------------------------------------------------------------------ specification of the Provider

Init ==
    /\ config = EmptyMap
    /\ env \in ProcessEnvs
    /\ envPrefix \in {"", "app"}
    /\ baseFile \in BaseFiles
    /\ SourceOf(baseFile)
    /\ configFile = ""
    /\ configPaths = <<>>
    /\ viper = 0
    /\ viperMutex = 0
    /\ built = 0
    /\ returned = {}
    /\ pc = [g \in Goroutines |-> "idle"]
    /\ kind = [g \in Goroutines |-> "none"]
    /\ opts = [g \in Goroutines |-> <<>>]
    /\ didRead = [g \in Goroutines |-> FALSE]
    /\ result = [g \in Goroutines |-> NotDone]
    /\ calls = 0
    /\ merges = <<>>
    /\ hook = NoHook
    /\ search = NoSearch
    /\ CommanderIdle
    /\ AuxIdle
    /\ ovFile = NoFile
    /\ ovFrom = <<>>
    /\ ovTo = <<>>
    /\ schema = WebSchema
    /\ applied = 0
    /\ ret = [err |-> "none"]
    /\ before = EmptyMap
    /\ forged = <<>>
    /\ trail = <<>>
    /\ watches = 0

Next ==
    \/ \E g \in Goroutines : ConfigStart(g)
    \/ \E g \in Goroutines : ViperStart(g)
    \/ \E g \in Goroutines : ViperLock(g)
    \/ \E g \in Goroutines : ViperCheck(g)
    \/ \E g \in Goroutines : ViperBuild(g)
    \/ \E g \in Goroutines : ViperReturn(g)
    \/ \E g \in Goroutines : ConfigRead(g)
    \/ \E g \in Goroutines : ConfigUnmarshal(g)
    \/ MergeInMemory

Spec == Init /\ [][Next]_vars

\* ------------------------------------------------------------------ specification of the environment

\* a Provider whose Source was made by NewSourceFile(ConfigName) in some process
\* environment, the --env-prefix flag left at its default
InitEnv ==
    /\ config = EmptyMap
    /\ \E vs \in EnvironmentVars : env = [auto |-> FALSE, vars |-> vs]
    /\ envPrefix = DefaultEnvironmentPrefix(ConfigName, env.vars)
    /\ baseFile \in BaseFiles
    /\ SourceOf(baseFile)
    /\ configFile = ""
    /\ configPaths = <<>>
    /\ ovFile = NoFile
    /\ ovFrom = <<>>
    /\ ovTo = <<>>
    /\ schema = WebSchema
    /\ applied = 0
    /\ ret = [err |-> "none"]
    /\ before = EmptyMap
    /\ forged = <<>>
    /\ trail = <<>>
    /\ watches = 0
    /\ viper = 0
    /\ viperMutex = 0
    /\ built = 0
    /\ returned = {}
    /\ pc = [g \in Goroutines |-> "idle"]
    /\ kind = [g \in Goroutines |-> "none"]
    /\ opts = [g \in Goroutines |-> <<>>]
    /\ didRead = [g \in Goroutines |-> FALSE]
    /\ result = [g \in Goroutines |-> NotDone]
    /\ calls = 0
    /\ merges = <<>>
    /\ hook = NoHook
    /\ \E h \in Homes : search = [done |-> FALSE, home |-> h, paths |-> <<>>]
    /\ CommanderIdle
    /\ AuxIdle

NextEnv ==
    \/ DefaultFileSearchPathsCall
    \/ ConfigStart(1)
    \/ ViperLock(1)
    \/ ViperCheck(1)
    \/ ViperBuild(1)
    \/ ViperReturn(1)
    \/ ConfigRead(1)
    \/ ConfigUnmarshal(1)

SpecEnv == InitEnv /\ [][NextEnv]_vars

\* ------------------------------------------------------------------ specification of the file search

\* the config file at a path of the model's file system: its host names the path
FileAt(d) == Map([webserver |-> Map([host |-> Str(d)])])

SearchPathLists == { <<"d1", "d2">>, <<"d2", "d1">>, <<"d1">>, <<"flag", "d1">>, <<WorkDir, "d2">> }

\* a Provider whose Source searches some directories of some file system, with
\* some values of the flags --config-path and --config-file
InitFile ==
    /\ config = EmptyMap
    /\ env = [auto |-> FALSE, vars |-> EmptyMap]
    /\ envPrefix = ""
    /\ \E present \in SUBSET Paths : files = [d \in Paths |-> IF d \in present THEN FileAt(d) ELSE NoFile]
    /\ searchPaths \in SearchPathLists
    /\ flagConfigPath \in {"", "flag"}
    /\ flagAbsolutePath \in {"", "/abs/app.yaml"}
    /\ baseFile = NoFile
    /\ configFile = ""
    /\ configPaths = <<>>
    /\ ovFile = NoFile
    /\ ovFrom = <<>>
    /\ ovTo = <<>>
    /\ schema = WebSchema
    /\ applied = 0
    /\ ret = [err |-> "none"]
    /\ before = EmptyMap
    /\ forged = <<>>
    /\ trail = <<>>
    /\ watches = 0
    /\ viper = 0
    /\ viperMutex = 0
    /\ built = 0
    /\ returned = {}
    /\ pc = [g \in Goroutines |-> "idle"]
    /\ kind = [g \in Goroutines |-> "none"]
    /\ opts = [g \in Goroutines |-> <<>>]
    /\ didRead = [g \in Goroutines |-> FALSE]
    /\ result = [g \in Goroutines |-> NotDone]
    /\ calls = 0
    /\ merges = <<>>
    /\ hook = NoHook
    /\ search = NoSearch
    /\ CommanderIdle
    /\ AuxIdle

NextFile ==
    \/ ConfigStart(1)
    \/ ViperLock(1)
    \/ ViperCheck(1)
    \/ ViperBuild(1)
    \/ ViperReturn(1)
    \/ ConfigRead(1)
    \/ ConfigUnmarshal(1)

SpecFile == InitFile /\ [][NextFile]_vars

\* ------------------------------------------------------------------ specification of the decode hooks

InitDecode ==
    /\ \E d \in HookData, t \in HookTargets, c \in CustomHooks \cup {"none"} :
          hook = [done |-> FALSE, data |-> d, to |-> t, custom |-> c, out |-> HookErr]
    /\ search = NoSearch
    /\ CommanderIdle
    /\ AuxIdle
    /\ config = EmptyMap
    /\ env = [auto |-> FALSE, vars |-> EmptyMap]
    /\ envPrefix = ""
    /\ baseFile = NoFile
    /\ SourceOf(NoFile)
    /\ configFile = ""
    /\ configPaths = <<>>
    /\ ovFile = NoFile
    /\ ovFrom = <<>>
    /\ ovTo = <<>>
    /\ schema = WebSchema
    /\ applied = 0
    /\ ret = [err |-> "none"]
    /\ before = EmptyMap
    /\ forged = <<>>
    /\ trail = <<>>
    /\ watches = 0
    /\ viper = 0
    /\ viperMutex = 0
    /\ built = 0
    /\ returned = {}
    /\ pc = [g \in Goroutines |-> "idle"]
    /\ kind = [g \in Goroutines |-> "none"]
    /\ opts = [g \in Goroutines |-> <<>>]
    /\ didRead = [g \in Goroutines |-> FALSE]
    /\ result = [g \in Goroutines |-> NotDone]
    /\ calls = 0
    /\ merges = <<>>

NextDecode == RunDecodeHook

\* the Provider, the overlay, the hooks and Commander when nothing uses them
Idle ==
    /\ hook = NoHook
    /\ search = NoSearch
    /\ CommanderIdle
    /\ config = EmptyMap
    /\ env = [auto |-> FALSE, vars |-> EmptyMap]
    /\ envPrefix = ""
    /\ baseFile = NoFile
    /\ SourceOf(NoFile)
    /\ configFile = ""
    /\ configPaths = <<>>
    /\ ovFile = NoFile
    /\ ovFrom = <<>>
    /\ ovTo = <<>>
    /\ schema = WebSchema
    /\ applied = 0
    /\ ret = [err |-> "none"]
    /\ before = EmptyMap
    /\ forged = <<>>
    /\ trail = <<>>
    /\ watches = 0
    /\ viper = 0
    /\ viperMutex = 0
    /\ built = 0
    /\ returned = {}
    /\ pc = [g \in Goroutines |-> "idle"]
    /\ kind = [g \in Goroutines |-> "none"]
    /\ opts = [g \in Goroutines |-> <<>>]
    /\ didRead = [g \in Goroutines |-> FALSE]
    /\ result = [g \in Goroutines |-> NotDone]
    /\ calls = 0
    /\ merges = <<>>

SpecDecode == InitDecode /\ [][NextDecode]_vars

\* ------------------------------------------------------------------ specification of VersionCommand

InitVersion ==
    /\ Idle
    /\ appver = NoVersion
    /\ entry = NoEntry /\ logger = NoLogger /\ validate = NoValidate

NextVersion ==
    \/ VersionCommand
    \/ VersionConstructor
    \/ VersionRun

SpecVersion == InitVersion /\ [][NextVersion]_vars

\* ------------------------------------------------------------------ specification of ContainerEntrypoint

InitEntry ==
    /\ Idle
    /\ \E args \in ArgLists, tools \in ToolLists, dirs \in PathDirs, execs \in ExecutableSets,
          execOk \in BOOLEAN :
          entry = [done |-> FALSE, args |-> args, tools |-> tools, dirs |-> dirs,
                   execs |-> execs, execOk |-> execOk,
                   out |-> [did |-> "none", args |-> args, image |-> <<>>, argv |-> <<>>]]
    /\ appver = NoVersion /\ logger = NoLogger /\ validate = NoValidate

NextEntry == Entrypoint

SpecEntry == InitEntry /\ [][NextEntry]_vars

\* ------------------------------------------------------------------ specification of AtLevel

InitLogger ==
    /\ Idle
    /\ \E min \in MinLevels : logger = [NoLogger EXCEPT !.min = min]
    /\ appver = NoVersion /\ entry = NoEntry /\ validate = NoValidate

NextLogger ==
    \/ AtLevel
    \/ AtLevelMap
    \/ With
    \/ Log

SpecLogger == InitLogger /\ [][NextLogger]_vars

\* ------------------------------------------------------------------ specification of config validate

InitValidate ==
    /\ Idle
    /\ \E file \in ConfigFileNames, text \in Texts, cfg \in ConfigResults,
          custom \in ValidateResults :
          validate = [done |-> FALSE, file |-> file, text |-> text, cfg |-> cfg,
                      custom |-> custom, out |-> [err |-> "nil", strict |-> FALSE]]
    /\ appver = NoVersion /\ entry = NoEntry /\ logger = NoLogger

NextValidate == Validate

SpecValidate == InitValidate /\ [][NextValidate]_vars

\* ------------------------------------------------------------------ specification of Commander

InitCommander ==
    /\ \E heeds \in BOOLEAN : CommanderInit(heeds)
    /\ AuxIdle
    /\ config = EmptyMap
    /\ env = [auto |-> FALSE, vars |-> EmptyMap]
    /\ envPrefix = ""
    /\ baseFile = NoFile
    /\ SourceOf(NoFile)
    /\ configFile = ""
    /\ configPaths = <<>>
    /\ ovFile = NoFile
    /\ ovFrom = <<>>
    /\ ovTo = <<>>
    /\ schema = WebSchema
    /\ applied = 0
    /\ ret = [err |-> "none"]
    /\ before = EmptyMap
    /\ forged = <<>>
    /\ trail = <<>>
    /\ watches = 0
    /\ viper = 0
    /\ viperMutex = 0
    /\ built = 0
    /\ returned = {}
    /\ pc = [g \in Goroutines |-> "idle"]
    /\ kind = [g \in Goroutines |-> "none"]
    /\ opts = [g \in Goroutines |-> <<>>]
    /\ didRead = [g \in Goroutines |-> FALSE]
    /\ result = [g \in Goroutines |-> NotDone]
    /\ calls = 0
    /\ merges = <<>>
    /\ hook = NoHook
    /\ search = [done |-> FALSE, home |-> "", paths |-> <<>>]

NextCommander ==
    \/ OnStart
    \/ CommandEnds
    \/ CommandCancelled
    \/ GoroutineReturns
    \/ OnStartSelect
    \/ OnStartWait
    \/ OnStop
    \/ OnStopWait
    \/ Derive
    \/ Shutdown
    \/ Tick

\* the Go scheduler runs a goroutine that can run, time passes, and a command
\* that heeds its context returns
SpecCommander ==
    /\ InitCommander
    /\ [][NextCommander]_vars
    /\ WF_vars(CommandCancelled)
    /\ WF_vars(GoroutineReturns)
    /\ WF_vars(OnStartSelect)
    /\ WF_vars(OnStartWait)
    /\ WF_vars(OnStopWait)
    /\ WF_vars(Tick)

\* ------------------------------------------------------------------ properties

ConfigReturned(g) == kind[g] = "Config" /\ result[g].done
ConfigOk(g) == ConfigReturned(g) /\ result[g].err = "none"

\* C1: however the goroutines interleave their Config() and Viper() calls on one
\* Provider, the Source's Viper constructor runs at most once, it has run exactly
\* once as soon as any call has returned, and every call has returned the one
\* cached instance.
C1_ViperBuiltOnce ==
    /\ built <= 1
    /\ viper \in {0, 1}
    /\ returned # {} => (built = 1 /\ viper = 1 /\ returned = {1})

\* the first caller has built the document and holds the mutex while another
\* caller, which started before the document existed, waits for it
C1_Witness ==
    \E g, h \in Goroutines :
        /\ g # h
        /\ built = 1 /\ returned = {}
        /\ pc[g] = "return" /\ viperMutex = g
        /\ pc[h] = "lock"

\* the value a field has by the precedence default < base file < environment: the environment variable
\* <PREFIX>_<PATH> if set, else the base file's value, else the default
ByPrecedence(p) ==
    LET type == (CHOOSE f \in TFields : f.path = p).type
        inFile == LookupPath(baseFile.v, p, 1)
    IN IF EnvKey(envPrefix, p) \in DOMAIN env.vars
       THEN DecodeValue(Str(env.vars[EnvKey(envPrefix, p)]), type).v
       ELSE IF inFile.st = "found" THEN DecodeValue(inFile.v, type).v
       ELSE DefaultsSet[p]

\* C2: a Config() call that succeeds resolves every field by the precedence
\* default < base file < environment, whether or not the base file holds the
\* field the environment sets.
C2_Precedence ==
    \A g \in Goroutines : ConfigOk(g) =>
        \A p \in TPaths : result[g].cfg[p] = ByPrecedence(p)

\* the overlays of a call applied in list order to a config
RECURSIVE ApplyAll(_, _, _)
ApplyAll(cur, overlays, i) ==
    IF i > Len(overlays) THEN cur
    ELSE ApplyAll(ApplyToResult(cur, env, envPrefix, overlays[i].content, overlays[i].from,
                                overlays[i].to, WebSchema).config,
                  overlays, i + 1)

\* C3: a Config(options...) call that succeeds returns the decoding of the
\* document with every overlay of WithOverlays applied to it in list order (so
\* the later overlay's value where two write the same path).
C3_OverlaysApplied ==
    \A g \in Goroutines : ConfigOk(g) =>
        result[g] = Unmarshal(ApplyAll(baseFile.v, opts[g].overlays, 1), env, envPrefix,
                              DefaultsSet)

\* C4: a Config() call reads the base file exactly when its options say so:
\* by default it does, with WithReadInConfig(false) it does not (and so keeps
\* what was merged into the document in memory).
C4_ReadInConfigOption ==
    \A g \in Goroutines : ConfigReturned(g) => (didRead[g] <=> opts[g].readInConfig)

\* the overlay's document as its viper holds it
OverlayDocument == AllSettings(ovFile.v, NoEnv, "")

\* From resolution as the specification states it: one nesting level per
\* segment, each segment a key of the mapping the segments before it address
RECURSIVE StrictWalk(_, _, _)
StrictWalk(val, segs, i) ==
    IF i > Len(segs) THEN [ok |-> val # Nil, v |-> val, i |-> i]
    ELSE IF ~IsMap(val) \/ Join(segs[i]) \notin DOMAIN val.v THEN [ok |-> FALSE, i |-> i]
    ELSE StrictWalk(val.v[Join(segs[i])], segs, i + 1)

StrictFrom == StrictWalk(Map(OverlayDocument), Split(ovFrom, "."), 1)

\* the call of applyTo that was made read the overlay's file
Applied == applied >= 1 /\ ovFile # NoFile

\* C5: when the From path does not exist in the overlay document, applyTo
\* returns an error naming the failing segment, the From path and the overlay's
\* file name, and the target document is what it was before the call.
C5_MissingFromKeepsTarget ==
    (Applied /\ ~StrictFrom.ok) =>
        /\ ret.err \in {"from_not_found", "from_nil"}
        /\ ret.err = "from_not_found" => ret.elem = Join(Split(ovFrom, ".")[StrictFrom.i])
        /\ ret.path = ovFrom
        /\ ret.file = OverlayFilename
        /\ config = before

\* C6: From resolution descends one level per segment: applyTo returns a
\* resolution error whenever a segment is not a key of the mapping the segments
\* before it address (also when they address no mapping) or the value is nil,
\* and otherwise resolves to the value at the nested path.
C6_FromResolution ==
    Applied =>
        IF StrictFrom.ok
        THEN /\ ret.err \notin {"from_not_found", "from_nil"}
             /\ ResolveFrom(OverlayDocument, ovFrom) = [err |-> "none", from |-> StrictFrom.v]
        ELSE ret.err \in {"from_not_found", "from_nil"}

\* a segment of the form [name=value], and a plain segment
IsSelector(seg) ==
    Len(seg) = 5 /\ seg[1] = "[" /\ seg[2] = "name" /\ seg[3] = "=" /\ seg[5] = "]"
    /\ seg[4] \notin {"[", "]", "=", "."}
IsPlain(seg) == Len(seg) = 1 /\ seg[1] \notin {"[", "]", "=", "."}

Segments(path) == Split(path, ".")
WellFormed(path) == \A j \in 1..Len(Segments(path)) :
                        IsSelector(Segments(path)[j]) \/ IsPlain(Segments(path)[j])

\* forging as the specification states it, from segment i down to the first
RECURSIVE SpecForge(_, _, _)
SpecForge(acc, segs, i) ==
    IF i = 0 THEN acc
    ELSE IF IsPlain(segs[i]) THEN SpecForge(Map(segs[i][1] :> acc), segs, i - 1)
    ELSE SpecForge(List(<<Map(Put(acc.v, "name", Str(segs[i][4])))>>), segs, i - 1)

\* C7: every To path (of plain and [name=value] segments) that applyTo forges
\* without error yields the fragment built right to left from the resolved From
\* value: {k: A} for a plain segment, [A + {name: value}] for a selector.
C7_ForgedFromResolved ==
    Applied =>
        \A i \in 1..Len(forged) : WellFormed(ovTo[i]) =>
            forged[i] = SpecForge(ResolveFrom(OverlayDocument, ovFrom).from,
                                  Segments(ovTo[i]), Len(Segments(ovTo[i])))

\* the kind of the accumulator when segment j of a well-formed path is reached
AccKind(from, segs, j) ==
    IF j = Len(segs) THEN from.k ELSE IF IsPlain(segs[j + 1]) THEN "m" ELSE "l"

\* segment j of segs is a [name=value] selector that is reached (every segment
\* right of it is forged without error) while the accumulator is no mapping
SelectorOnNonMap(from, segs, j) ==
    /\ IsSelector(segs[j])
    /\ AccKind(from, segs, j) # "m"
    /\ \A i \in (j + 1)..Len(segs) :
          IsPlain(segs[i]) \/ (IsSelector(segs[i]) /\ AccKind(from, segs, i) = "m")

\* the config a call had when it began with the t-th To path
ConfigAt(t) == IF t = 1 THEN before ELSE trail[t - 1]

\* the call got as far as the t-th To path: the paths before it were merged
Reached(t) == ret.err \notin {"from_not_found", "from_nil"} /\ Len(trail) >= t - 1

\* C8: whenever a [name=value] selector is reached while the accumulated value
\* is not a mapping, applyTo returns an error and merges nothing for that To
\* path.
C8_SelectorNeedsMap ==
    Applied =>
        \A t \in 1..Len(ovTo) :
            (/\ Reached(t)
             /\ \E j \in 1..Len(Segments(ovTo[t])) :
                    SelectorOnNonMap(ResolveFrom(OverlayDocument, ovFrom).from,
                                     Segments(ovTo[t]), j))
            => /\ ret.err = "selector_map_only"
               /\ Len(trail) = t - 1
               /\ Len(forged) = t - 1
               /\ config = ConfigAt(t)

\* an earlier To path was merged, then a selector met a value that is no mapping
C8_Witness ==
    /\ Applied
    /\ ret.err = "selector_map_only"
    /\ Len(trail) = 1
    /\ config # before

\* C9: a To path whose fully forged value is not a mapping at the top level (as
\* when its leftmost segment is a selector) makes applyTo return the cast error
\* without merging that fragment.
C9_ForgedMustBeMap ==
    Applied =>
        \A t \in 1..Len(forged) :
            /\ IsSelector(Segments(ovTo[t])[1]) => IsList(forged[t])
            /\ ~IsMap(forged[t]) =>
                /\ ret.err = "map_cast"
                /\ t = Len(forged)
                /\ Len(trail) = t - 1
                /\ config = ConfigAt(t)

\* an earlier To path was merged, then a path with a leftmost selector was
\* forged into a list
C9_Witness ==
    /\ Applied
    /\ ret.err = "map_cast"
    /\ Len(forged) = 2 /\ IsList(forged[2])
    /\ Len(trail) = 1
    /\ config # before

NoSelector(to) == \A t \in 1..Len(to) : ~Contains(to[t], "[")

\* C10: for an overlay whose To paths hold no selector segment, the second of
\* two applications in a row leaves the target document as the first left it.
C10_Idempotent ==
    (applied >= 2 /\ NoSelector(ovTo)) => config = before

\* an overlay of two plain paths was applied twice without error, and the
\* document is none of the documents the target started as
C10_Witness ==
    /\ applied = 2
    /\ NoSelector(ovTo) /\ Len(ovTo) = 2
    /\ ret.err = "none" /\ Len(trail) = 2
    /\ config \notin TargetConfigs

\* the To path t addresses, through a selector, an element of the list `rules`,
\* which the type of cfg declares as merged by the key name
SelectsRule(t) ==
    /\ WellFormed(ovTo[t])
    /\ Len(Segments(ovTo[t])) >= 2
    /\ Segments(ovTo[t])[1] = <<"rules">>
    /\ IsSelector(Segments(ovTo[t])[2])
    /\ LookupSlice(schema, "rules") = [err |-> FALSE, field |-> Field(RuleType, "merge", "name")]

SelectedName(t) == Str(Segments(ovTo[t])[2][4])

\* the list of rules of a config (empty when it has none)
RulesOf(cfg) == IF "rules" \in DOMAIN cfg THEN cfg["rules"].v ELSE <<>>

Named(rules, name) == {i \in 1..Len(rules) : rules[i].v["name"] = name}

\* old with the keys of the injected mapping set to the injected values
Overridden(old, inj) ==
    [key \in (DOMAIN old) \cup (DOMAIN inj) |-> IF key \in DOMAIN inj THEN inj[key] ELSE old[key]]

\* C11: a To path rules.[name=x]... that is merged into a target whose rules are
\* merged by name changes only the rule named x: that rule is the old one with
\* the injected mapping merged into it (the injected mapping itself when there
\* was none), every other rule keeps its content and its place among the
\* others, and exactly one rule is named x afterwards.
C11_SelectorMergesNamedElement ==
    Applied =>
        \A t \in 1..Len(trail) : SelectsRule(t) =>
            LET old == RulesOf(ConfigAt(t))
                new == RulesOf(trail[t])
                inj == forged[t].v["rules"].v[1].v
                x == SelectedName(t)
                others(l) == SelectSeq(l, LAMBDA r : r.v["name"] # x)
            IN /\ others(new) = others(old)
               /\ Cardinality(Named(new, x)) = 1
               /\ \A i \in Named(new, x) :
                      new[i].v = IF Named(old, x) = {} THEN inj
                                 ELSE Overridden(old[CHOOSE j \in Named(old, x) : TRUE].v, inj)
               /\ Len(new) = Len(old) + (IF Named(old, x) = {} THEN 1 ELSE 0)

\* the rule named a of a target with the rules a and b was merged with an
\* injected mapping that changes it
C11_Witness ==
    /\ Applied
    /\ Len(trail) >= 1
    /\ SelectsRule(1)
    /\ SelectedName(1) = Str("a")
    /\ Len(RulesOf(before)) = 2
    /\ Named(RulesOf(before), Str("a")) = {1}
    /\ RulesOf(trail[1]) # RulesOf(before)
    /\ RulesOf(trail[1])[2] = RulesOf(before)[2]

\* C12: however often the same Overlay is applied, the watch on the overlay's
\* own file is started exactly once: it has been started once the first
\* application has succeeded, and it is never started a second time.
C12_WatchInstalledOnce ==
    /\ watches <= 1
    /\ (Applied /\ ret.err = "none") => watches = 1

\* the name of the variable that stands for a path under the prefix in use:
\* <PREFIX>_<PATH>, upper-cased, "." replaced by "_" (<PATH> alone when the
\* prefix is empty)
VarName(p) ==
    LET words == IF envPrefix = "" THEN p ELSE <<envPrefix>> \o p
    IN [i \in 1..Len(words) |-> Upper(words[i])]

FileHolds(p) == baseFile # NoFile /\ LookupPath(baseFile.v, p, 1).st = "found"

\* some variable's name starts with the upper-cased config name
SomeVarOfName == \E n \in DOMAIN env.vars : HasPrefix(n, Upper(ConfigName))

PrefixIsDefault == envPrefix = IF SomeVarOfName THEN Upper(ConfigName) ELSE ""

\* what Config() would return in the same state with an empty environment
WithoutEnvironment == Unmarshal(baseFile.v, [auto |-> TRUE, vars |-> EmptyMap], envPrefix,
                                DefaultsSet)

Priority == (IF flagConfigPath # "" THEN <<flagConfigPath>> ELSE <<>>) \o searchPaths

Holding == {i \in 1..Len(Priority) : files[Priority[i]] # NoFile}

\* the file the specification selects: "" when there is none to select
Selected ==
    IF flagAbsolutePath # "" THEN flagAbsolutePath
    ELSE IF Holding = {} THEN ""
    ELSE Priority[CHOOSE i \in Holding : \A j \in Holding : i <= j]

\* C14: a Config() call reads exactly the file at the absolute path when one is
\* set (and fails when it is missing, whatever the directories hold); otherwise
\* the file of the first directory in priority order that holds one, and fails
\* when none does.
C14_FileResolution ==
    \A g \in Goroutines : ConfigReturned(g) =>
        IF Selected = "" \/ files[Selected] = NoFile
        THEN result[g].err = "read"
        ELSE /\ result[g].err = "none"
             /\ result[g].cfg[<<"webserver", "host">>] = Str(Selected)
             /\ configFile = Selected

\* two directories hold the file and the second of them in alphabetical order
\* comes first in the search paths: its file is the one read
C14_Witness ==
    /\ flagAbsolutePath = "" /\ flagConfigPath = ""
    /\ searchPaths = <<"d2", "d1">>
    /\ files["d1"] # NoFile /\ files["d2"] # NoFile
    /\ ConfigOk(1)
    /\ result[1].cfg[<<"webserver", "host">>] = Str("d2")

\* ------------------------------------------------------------------ decode hooks: the claims

\* a hook is applicable to a value when its guard lets it convert the value
\* (the hook of no hooks converts nothing)
Applicable(h, data, t) ==
    CASE h = "stringToSlice" -> data.kind = "string" /\ t = "[]string"
      [] h = "duration" -> data.kind = "string" /\ t = "time.Duration"
      [] h = "trim" -> data.kind = "slice" /\ t = "[]string"
      [] h = "fail" -> data.kind = "int"
      [] OTHER -> FALSE

\* the registration order: string to list, duration, then the hook of T
Registered(custom) ==
    <<"stringToSlice", "duration">> \o (IF custom = "none" THEN <<>> ELSE <<custom>>)

\* the first applicable hook alone decides the result
RECURSIVE FirstWins(_, _, _, _)
FirstWins(fs, i, data, t) ==
    IF i > Len(fs) THEN HookOk(data)
    ELSE IF Applicable(fs[i], data, t) THEN DecodeHookExec(fs[i], data, t)
    ELSE FirstWins(fs, i + 1, data, t)

\* every hook in turn converts the value as it then is, when applicable to it
RECURSIVE Chained(_, _, _, _)
Chained(fs, i, data, t) ==
    IF i > Len(fs) THEN HookOk(data)
    ELSE IF ~Applicable(fs[i], data, t) THEN Chained(fs, i + 1, data, t)
    ELSE LET next(r) == IF r.err THEN HookErr ELSE Chained(fs, i + 1, r.data, t)
         IN next(DecodeHookExec(fs[i], data, t))

\* C15 as stated: the hooks are tried in registration order, the first
\* applicable hook wins and its result is not transformed again by a later
\* hook, and a value no hook applies to passes through unchanged without error
C15_FirstApplicableWins ==
    hook.done => hook.out = FirstWins(Registered(hook.custom), 1, hook.data, hook.to)

\* C15 amended: the hooks run in registration order as a chain, each on the
\* value the hook before it returned, so a later hook applicable to an earlier
\* hook's result converts it again; the error of a hook ends the decoding; a
\* value no hook applies to passes through unchanged without error
C15_HooksChained ==
    hook.done =>
        /\ hook.out = Chained(Registered(hook.custom), 1, hook.data, hook.to)
        /\ (\A i \in 1..Len(Registered(hook.custom)) :
                ~Applicable(Registered(hook.custom)[i], hook.data, hook.to))
            => hook.out = HookOk(hook.data)

\* the list hook and then the hook of T have both converted "a, b"
C15_Witness ==
    /\ hook.done
    /\ hook.custom = "trim"
    /\ hook.to = "[]string"
    /\ hook.data = HString(<<"a", ",", " ", "b">>)
    /\ hook.out = HookOk(HSlice(<<<<"a">>, <<"b">>>>))

\* the length of one unit in seconds: d is 24h and w is 7 times 24h
UnitSeconds(u) ==
    CASE u = "s" -> 1 [] u = "m" -> 60 [] u = "h" -> 3600
      [] u = "d" -> 24 * 3600 [] u = "w" -> 7 * 24 * 3600

\* the well-formed duration strings among the inputs, read as unit sequences
\* (a count of milliseconds and the (count, unit) pairs); the other input
\* strings are malformed
UnitSequences ==
    (<<"4", "d", "3", "h", "2", "m", "1", "s">> :>
        [neg |-> FALSE, ms |-> 0, seq |-> <<<<4, "d">>, <<3, "h">>, <<2, "m">>, <<1, "s">>>>]) @@
    (<<"1", "w">> :> [neg |-> FALSE, ms |-> 0, seq |-> <<<<1, "w">>>>]) @@
    (<<"0">> :> [neg |-> FALSE, ms |-> 0, seq |-> <<>>]) @@
    (<<"-", "1", "h">> :> [neg |-> TRUE, ms |-> 0, seq |-> <<<<1, "h">>>>]) @@
    (<<"1", "0", "m", "s">> :> [neg |-> FALSE, ms |-> 10, seq |-> <<>>]) @@
    (<<"1", "m", "3", "0", "s">> :> [neg |-> FALSE, ms |-> 0, seq |-> <<<<1, "m">>, <<30, "s">>>>]) @@
    (<<"1", "h", "1", "h">> :> [neg |-> FALSE, ms |-> 0, seq |-> <<<<1, "h">>, <<1, "h">>>>]) @@
    (<<"2", "w", "1", "d">> :> [neg |-> FALSE, ms |-> 0, seq |-> <<<<2, "w">>, <<1, "d">>>>])

RECURSIVE TotalSeconds(_)
TotalSeconds(seq) ==
    IF seq = <<>> THEN 0 ELSE Head(seq)[1] * UnitSeconds(Head(seq)[2]) + TotalSeconds(Tail(seq))

\* the total duration of a unit sequence, in milliseconds
Total(q) ==
    LET ms == TotalSeconds(q.seq) * 1000 + q.ms IN IF q.neg THEN 0 - ms ELSE ms

\* the duration hook is the only hook that can convert the value: T has no
\* converting hook and the list hook does not apply
DurationHookAlone ==
    /\ hook.done
    /\ hook.custom \in {"none", "empty"}
    /\ ~(hook.data.kind = "string" /\ hook.to = "[]string")

\* C16: the duration hook converts only a string for a duration target and
\* returns any other value unchanged; a well-formed string becomes the total
\* of its unit sequence with d = 24h and w = 7 * 24h ("4d3h2m1s" is 356521
\* seconds, "1w" is 168 hours); a malformed string such as "abc" is a decode
\* error and never a zero duration
C16_DurationHook ==
    DurationHookAlone =>
        /\ ~(hook.data.kind = "string" /\ hook.to = "time.Duration")
            => hook.out = HookOk(hook.data)
        /\ (hook.data.kind = "string" /\ hook.to = "time.Duration") =>
            /\ hook.data.s \in DOMAIN UnitSequences
                => hook.out = HookOk(HDuration(Total(UnitSequences[hook.data.s])))
            /\ hook.data.s \notin DOMAIN UnitSequences => hook.out.err
            /\ hook.data.s = <<"4", "d", "3", "h", "2", "m", "1", "s">>
                => hook.out = HookOk(HDuration(356521 * 1000))
            /\ hook.data.s = <<"1", "w">> => hook.out = HookOk(HDuration(168 * 3600 * 1000))
            /\ hook.data.s = <<"a", "b", "c">> => hook.out.err

\* "4d3h2m1s" has been decoded for a duration target
C16_Witness ==
    /\ DurationHookAlone
    /\ hook.to = "time.Duration"
    /\ hook.data = HString(<<"4", "d", "3", "h", "2", "m", "1", "s">>)
    /\ hook.out = HookOk(HDuration(356521000))

\* ------------------------------------------------------------------ Config(): the stages

\* the overlays of a call all merge into the document, one after the other
RECURSIVE AllMerge(_, _, _)
AllMerge(cur, overlays, i) ==
    IF i > Len(overlays) THEN TRUE
    ELSE LET step(r) == r.err.err = "none" /\ AllMerge(r.config, overlays, i + 1)
         IN step(ApplyToResult(cur, env, envPrefix, overlays[i].content, overlays[i].from,
                               overlays[i].to, WebSchema))

\* C17: Config() swallows no stage failure: when the defaults, the read of the
\* base file, an overlay merge or the decode fails it returns a nil
\* configuration and the error of that stage, and it returns a configuration
\* only when every stage succeeded
C17_NoStageFailureSwallowed ==
    \A g \in Goroutines : ConfigReturned(g) =>
        /\ result[g].err # "none"
            => ("cfg" \notin DOMAIN result[g] /\ result[g].err \in {"read", "unmarshal"})
        /\ result[g].err = "none"
            => /\ configFile # "" /\ files[configFile] # NoFile
               /\ AllMerge(files[configFile].v, opts[g].overlays, 1)
               /\ Unmarshal(files[configFile].v, env, envPrefix, DefaultsSet).err = "none"

\* ------------------------------------------------------------------ the default search paths: the claim

\* C18: DefaultFileSearchPaths(configName) returns, in decreasing priority, the
\* working directory, then (when HOME is set) $HOME/.config, $HOME/.<configName>,
\* $HOME/.local/etc, $HOME/.local/etc/<configName>, $HOME, then /opt/<configName>,
\* /opt/<configName>/etc, /opt/<configName>/etc/<configName>, /usr/local/etc,
\* /usr/local/etc/<configName>, /etc, /etc/<configName>: exactly these, in this
\* order
C18_DefaultSearchPaths ==
    search.done =>
        search.paths =
            << <<".">> >>
            \o (IF search.home # ""
                THEN << <<search.home, ".config">>,
                        <<search.home, ".", ConfigName>>,
                        <<search.home, ".local", "etc">>,
                        <<search.home, ".local", "etc", ConfigName>>,
                        <<search.home>> >>
                ELSE <<>>)
            \o << <<"/opt", ConfigName>>,
                  <<"/opt", ConfigName, "etc">>,
                  <<"/opt", ConfigName, "etc", ConfigName>>,
                  <<"/usr/local/etc">>,
                  <<"/usr/local/etc", ConfigName>>,
                  <<"/etc">>,
                  <<"/etc", ConfigName>> >>

\* ------------------------------------------------------------------ Commander: the claims

\* the command ended with nil or context.Canceled
EndedQuietly == cmd.st = "returned" /\ cmd.err \in {"nil", "Canceled"}

\* C19 as stated: when OnStop runs the command's context is cancelled, OnStop
\* returns only after the command goroutine has returned, it returns nil when
\* the command ended with nil or context.Canceled, and it eventually returns
\* when the command returns once its context is cancelled
C19_OnStopWaitsForCommand ==
    /\ [](/\ stop.pc # "idle" => (ctx.cancelled /\ CtxDone)
          /\ stop.pc = "returned" => gr.pc = "done"
          /\ (stop.pc = "returned" /\ EndedQuietly) => stop.ret = "nil")
    /\ ((stop.pc = "wait" /\ cmd.heeds) ~> stop.pc = "returned")

\* C19 amended: when OnStop runs the command's context is cancelled, OnStop
\* returns only after the command goroutine has returned and returns what the
\* goroutine returned: nil when the command ended with nil or context.Canceled
\* and Shutdown() returned nil, the error of Shutdown() when that call failed;
\* it eventually returns when the command returns once its context is cancelled
C19_OnStopReturnsGoroutineError ==
    /\ [](/\ stop.pc # "idle" => (ctx.cancelled /\ CtxDone)
          /\ stop.pc = "returned" =>
                /\ gr.pc = "done"
                /\ stop.ret = gr.ret
                /\ EndedQuietly => stop.ret \in {"nil", "shutdown"}
                /\ (EndedQuietly /\ stop.ret = "shutdown") => shutdowns[Len(shutdowns)] = 0)
    /\ ((stop.pc = "wait" /\ cmd.heeds) ~> stop.pc = "returned")

\* OnStop cancelled a running command, which returned context.Canceled, and
\* OnStop returned nil after the goroutine
C19_Witness ==
    /\ stop.pc = "returned" /\ stop.ret = "nil"
    /\ ctx.cancelled
    /\ cmd.st = "returned" /\ cmd.err = "Canceled"
    /\ gr.pc = "done"

\* the command failed, with an error other than context.Canceled, less than
\* startBackoff after OnStart started it
FailedWithinBackoff ==
    /\ cmd.st = "returned" /\ cmd.err = "error"
    /\ cmd.endedAt < start.at + startBackoff

\* the command was still running when startBackoff had passed
RunningAfterBackoff ==
    /\ clock >= start.at + startBackoff
    /\ cmd.st = "running" \/ (cmd.st = "returned" /\ cmd.endedAt > start.at + startBackoff)

\* C20: OnStart returns the command's error (as "failed to run: ...") when the
\* command fails with an error other than context.Canceled within startBackoff
\* of being started, returns nil when the command is still running after
\* startBackoff, and always returns: it never waits for a command that keeps
\* running
C20_OnStartReturns ==
    /\ [](start.pc = "returned" =>
            /\ FailedWithinBackoff => start.ret = "failed to run"
            /\ RunningAfterBackoff => start.ret = "nil")
    /\ (start.pc = "select" ~> start.pc = "returned")

\* the command failed at once and OnStart returned its error
C20_Witness ==
    /\ start.pc = "returned"
    /\ FailedWithinBackoff
    /\ start.ret = "failed to run"
    /\ shutdowns[Len(shutdowns)] = 1

\* ------------------------------------------------------------------ Shutdown: the claim

\* the context stems from the one Commander hands to the command
RECURSIVE DerivedFromCommander(_)
DerivedFromCommander(c) ==
    \/ c = CommanderContext
    \/ Len(c) > Len(CommanderContext) /\ DerivedFromCommander(SubSeq(c, 1, Len(c) - 1))

\* the context carries a shutdowner
CarriesShutdowner(c) ==
    \E i \in 1..Len(c) : c[i].kind = "value" /\ c[i].key = "shutdownerContextKey"

Called == sdCall.err # "none"

\* C21: Shutdown(ctx, exitCode) returns ErrContextMissingShutdowner and requests
\* no shutdown when ctx carries no shutdowner, and otherwise requests the
\* shutdown of the app with exactly exitCode; every context derived from the one
\* Commander hands to the command carries the shutdowner, so Shutdown works
\* from inside the command
C21_ShutdownFromContext ==
    /\ [](DerivedFromCommander(cctx) /\ CarriesShutdowner(cctx))
    /\ [][Shutdown =>
            /\ ~CarriesShutdowner(sdCall'.ctx)
                => (sdCall'.err = "ErrContextMissingShutdowner" /\ shutdowns' = shutdowns)
            /\ CarriesShutdowner(sdCall'.ctx)
                => /\ shutdowns' = Append(shutdowns, sdCall'.code)
                   /\ sdCall'.err # "ErrContextMissingShutdowner"
            /\ DerivedFromCommander(sdCall'.ctx) => CarriesShutdowner(sdCall'.ctx)]_vars

\* the command derived two contexts and called Shutdown with the last one,
\* which requested the shutdown with exit code 2
C21_Witness ==
    /\ Called
    /\ sdCall.ctx = cctx
    /\ Len(cctx) = Len(CommanderContext) + 2
    /\ sdCall.err = "nil" /\ sdCall.code = 2
    /\ shutdowns = <<2>>

\* ------------------------------------------------------------------ VersionCommand: the claim

\* the non-empty versions VersionCommand was called with, in call order
GivenVersions == SelectSeq(appver.supplied, LAMBDA v : v # "")

\* C22: after VersionCommand(version) was called with a non-empty version,
\* AppVersion is that version and the version command and the --version flag
\* report it; AppVersion is "unknown" only when no version was supplied
C22_AppVersionIsSupplied ==
    /\ GivenVersions # <<>> => appver.app = GivenVersions[Len(GivenVersions)]
    /\ appver.reported # "none" => appver.reported = appver.app
    /\ appver.app = "unknown" => GivenVersions = <<>>

\* ------------------------------------------------------------------ ContainerEntrypoint: the claim

\* the tools that may be executed: those given, the default list when none is
Allowed == IF entry.tools = <<>>
           THEN { <<"sh">>, <<"/bin", "sh">>, <<"bash">>, <<"/bin", "bash">> }
           ELSE { entry.tools[i] : i \in 1..Len(entry.tools) }

Wildcard == <<"*">> \in Allowed

GivenArgument == Len(entry.args) >= 2

IsBinaryName == GivenArgument /\ entry.args[2] = <<entry.args[1][Len(entry.args[1])]>>

\* the file os.Args[1] names exists as an executable: as it is when it has a
\* slash, in a directory of $PATH otherwise
FoundInPath ==
    /\ GivenArgument
    /\ IF Len(entry.args[2]) > 1 THEN entry.args[2] \in entry.execs
       ELSE \E i \in 1..Len(entry.dirs) : <<entry.dirs[i]>> \o entry.args[2] \in entry.execs

\* the conditions under which the process image may be replaced
MayExec ==
    /\ GivenArgument
    /\ ~IsBinaryName
    /\ entry.args[2] \in Allowed \/ Wildcard
    /\ FoundInPath

\* C23 as stated: the process image is replaced with os.Args[1] only when an
\* argument was given, it is not the binary's base name, it is an allowed tool
\* (or "*" is) and it is found in $PATH; when it is the binary's base name it is
\* shifted out of os.Args and nothing is executed; in every other case os.Args
\* is left unchanged and execution continues
C23_EntrypointExecsOnlyTools ==
    entry.done =>
        /\ entry.out.did = "exec" => MayExec
        /\ IsBinaryName => (entry.out.did = "continue" /\ entry.out.args = Tail(entry.args))
        /\ (~IsBinaryName /\ entry.out.did # "exec")
            => (entry.out.did = "continue" /\ entry.out.args = entry.args)

\* C23 amended: as stated, except that ContainerEntrypoint panics when
\* os.Args[1] is an allowed tool that is not found in $PATH while "*" is not
\* among the tools, and when the exec of a found tool fails; when the exec
\* succeeds the image is the file found and its arguments are os.Args[1:]
C23_EntrypointExecsOrPanics ==
    entry.done =>
        /\ entry.out.did = "exec" <=> (MayExec /\ entry.execOk)
        /\ entry.out.did = "exec" => entry.out.argv = Tail(entry.args)
        /\ IsBinaryName => (entry.out.did = "continue" /\ entry.out.args = Tail(entry.args))
        /\ entry.out.did = "panic" <=>
                \/ MayExec /\ ~entry.execOk
                \/ /\ GivenArgument /\ ~IsBinaryName
                   /\ entry.args[2] \in Allowed /\ ~Wildcard /\ ~FoundInPath
        /\ (~IsBinaryName /\ entry.out.did \notin {"exec", "panic"})
            => (entry.out.did = "continue" /\ entry.out.args = entry.args)

\* the container was run with "sh -c", a default tool found in /bin
C23_Witness ==
    /\ entry.done
    /\ entry.tools = <<>>
    /\ entry.args = << <<"/usr/bin", "app">>, <<"sh">>, <<"-c">> >>
    /\ entry.out.did = "exec"
    /\ entry.out.image = <<"/bin", "sh">>
    /\ entry.out.argv = << <<"sh">>, <<"-c">> >>

\* ------------------------------------------------------------------ AtLevel: the claims

\* a record was logged and reached the underlying handler
RecordReached == logger.logged /\ logger.got.reached

\* C24: every record logged through the logger AtLevel(log, L) returns reaches
\* the underlying handler with level L, whatever level it was logged at
\* (levels other than Debug, Info, Warn and Error included)
C24_AtLevelRewritesEveryLevel ==
    (RecordReached /\ logger.kind = "AtLevel" /\ logger.derived = <<>>)
        => logger.got.level = logger.level

\* C27: a logger derived from one of AtLevel or AtLevelMap by With and
\* WithGroup calls keeps the level rewriting: its records reach the underlying
\* handler at the mapped level
C27_DerivedLoggersRewrite ==
    (RecordReached /\ logger.at \in DOMAIN logger.m)
        => logger.got.level = logger.m[logger.at]

\* ------------------------------------------------------------------ applyTo: bracket segments

\* a segment with a bracket, its key (what stands between the opening bracket
\* and the = sign or the closing bracket) and whether it has a =value part
HasBracket(seg) == \E i \in 1..Len(seg) : seg[i] = "["
HasValuePart(seg) == \E i \in 1..Len(seg) : seg[i] = "="
BracketKey(seg) ==
    SelectSeq(SubSeq(seg, 1, IF HasValuePart(seg)
                             THEN (CHOOSE i \in 1..Len(seg) : seg[i] = "=") - 1
                             ELSE Len(seg)),
              LAMBDA c : c \notin {"[", "]"})

\* a bracket segment that is not of the form [name=value]
NotNameValue(seg) ==
    HasBracket(seg) /\ (BracketKey(seg) # <<"name">> \/ ~HasValuePart(seg))

\* C25: when a To path that applyTo gets to holds a bracket segment with a key
\* other than name or without a =value part, applyTo returns an error and
\* merges nothing for that path.
C25_BracketFormOnly ==
    Applied =>
        \A t \in 1..Len(ovTo) :
            (/\ Reached(t)
             /\ \E j \in 1..Len(Segments(ovTo[t])) : NotNameValue(Segments(ovTo[t])[j]))
            => /\ ret.err # "none"
               /\ Len(trail) = t - 1

\* the From value the call resolved, and the fragment forged from it for a path
ResolvedFrom == ResolveFrom(OverlayDocument, ovFrom).from
ForgedAlone(path) == Forge(ResolvedFrom, path).forged

\* C28: the fragment applyTo forges for each To path is the one forged from the
\* resolved From value as it was resolved, whatever To paths came before it.
C28_ForgingKeepsFrom ==
    Applied =>
        \A t \in 1..Len(forged) : forged[t] = ForgedAlone(ovTo[t])

\* ------------------------------------------------------------------ config validate: the claim

\* the extension of the file the command was run on is yaml, in any case of
\* letters
YamlFile ==
    /\ Len(validate.file) >= 2
    /\ validate.file[Len(validate.file) - 1] = "."
    /\ validate.file[Len(validate.file)] \in {"yaml", "YAML"}

\* the viper read of the run succeeded
ViperRead == validate.done /\ validate.out.err \notin {"unsupported", "parse"}

\* C26: a run of config validate on a file with the extension yaml that viper
\* reads uses the strict YAML parser too, and returns the strict parser's error
\* when the file does not pass it.
C26_ValidateStrictYaml ==
    (ViperRead /\ YamlFile) =>
        /\ validate.out.strict
        /\ validate.text # "plain" => validate.out.err = "strict"

=============================================================================
